---- MODULE Spec2Model ----
(***************************************************************************)
(* DineBook backend: the booking, availability and restaurant handlers of  *)
(* the REST API, the document store they share and the two in-process      *)
(* NodeCache instances, as a state machine.                                *)
(*                                                                         *)
(* Every handler is an async function.  Each `await` of a store operation  *)
(* is a point where other requests run, so a handler is a sequence of      *)
(* actions: one per store operation (the moment the store executes it,     *)
(* together with the handler-local code that follows it), and a separate   *)
(* action for a continuation that touches a shared cache or sends the      *)
(* response.                                                               *)
(***************************************************************************)
EXTENDS Integers, Sequences, FiniteSets, TLC

(* ----------------------------- bounds ---------------------------------- *)
NumProcs == 2
MaxRequests == 3
MaxTicks == 1
NumUsers == 2
NumRestaurants == 2
NumDates == 2
MaxTime == 1
MaxGuests == 2
Capacity == 2

Procs == 1..NumProcs
Users == 1..NumUsers
RestaurantIds == 1..NumRestaurants
Dates == 1..NumDates
Times == 0..MaxTime
GuestCounts == 1..MaxGuests

(* ----------------------------- state ----------------------------------- *)
VARIABLES
    restaurants,      \* Restaurant collection: id -> document
    bookings,         \* Booking collection: sequence of documents, _id = index
    reviews,          \* Review collection: set of documents
    favorites,        \* Favorite collection: set of documents
    bookingCache,     \* NodeCache of the booking controller: key -> value
    restaurantCache,  \* NodeCache of the restaurant controller: key -> value
    now,              \* wall clock, in the units of DateTime
    pc,               \* per request slot: where its handler is suspended
    req,              \* per request slot: the request and the handler's locals
    resp,             \* the last response sent, with the request it answers
    acked,            \* history: writes whose handler has sent its success response
    started,          \* history: number of requests received so far
    listPage          \* the restaurants list page of a customer's browser

vars == <<restaurants, bookings, reviews, favorites, bookingCache,
          restaurantCache, now, pc, req, resp, acked, started, listPage>>

(* ------------------------- time and opening hours ---------------------- *)
Weekdays == <<"monday", "tuesday", "wednesday", "thursday", "friday",
              "saturday", "sunday">>

getDayOfWeek(date) == Weekdays[((date - 1) % 7) + 1]

Absent == [present |-> FALSE, open |-> 0, close |-> 0]

Hours(o, c) == [present |-> TRUE, open |-> o, close |-> c]

getOpeningHours(restaurant, dayOfWeek) == restaurant.openingHours[dayOfWeek]

isRestaurantClosed(openingHours) ==
    \/ ~openingHours.present
    \/ openingHours.open = openingHours.close

generateTimeSlots(open, close) ==
    IF close > open THEN [i \in 1..(close - open) |-> open + i - 1] ELSE <<>>

isTimeWithinHours(time, open, close) == open <= time /\ time < close

DateTime(date, time) == date * (MaxTime + 1) + time


(* ------------------------------ store ---------------------------------- *)
NumOwners == 2

OwnerIds == (NumUsers + 1)..(NumUsers + NumOwners)

OwnerOf(rid) == NumUsers + ((rid - 1) % NumOwners) + 1

(* the opening-hours table, over the weekdays of the dates of the model *)
AlwaysOpen == [d \in {getDayOfWeek(date) : date \in Dates} |-> Hours(0, MaxTime + 1)]

ClosedTables ==
    { [AlwaysOpen EXCEPT !["monday"] = Absent],
      [AlwaysOpen EXCEPT !["monday"] = Hours(1, 1)] }

HoursTables ==
    ClosedTables \cup {AlwaysOpen, [AlwaysOpen EXCEPT !["monday"] = Hours(1, MaxTime + 1)]}

Cuisines == <<"Italian", "Indian">>

(* restaurant rid as created by its owner: names run against the ids, so
   that a listing sorted by name differs from the insertion order; geometry
   is a position on a line, in kilometres *)
RestaurantDoc(rid, hours) ==
    [ownerId |-> OwnerOf(rid), isActive |-> TRUE, capacity |-> Capacity,
     openingHours |-> hours, name |-> NumRestaurants + 1 - rid,
     cuisine |-> Cuisines[((rid - 1) % 2) + 1],
     priceRange |-> ((rid - 1) % 4) + 1, geometry |-> 2 * (rid - 1),
     menuItems |-> IF rid = 1 THEN <<[id |-> 0, name |-> "soup"]>> ELSE <<>>]

BookingDoc(customerId, restaurantId, date, time, guests, status) ==
    [customerId |-> customerId, restaurantId |-> restaurantId, date |-> date,
     time |-> time, guests |-> guests, status |-> status]

ActiveStatuses == {"confirmed", "pending"}

(* mutant of TotalGuests: the $match keeps confirmed bookings only *)
RECURSIVE TotalGuestsConfirmedOnly(_, _, _, _)
TotalGuestsConfirmedOnly(docs, rid, date, time) ==
    IF docs = <<>> THEN 0
    ELSE LET b == Head(docs)
         IN  (IF /\ b.restaurantId = rid /\ b.date = date /\ b.time = time
                 /\ b.status = "confirmed"
              THEN b.guests ELSE 0)
             + TotalGuestsConfirmedOnly(Tail(docs), rid, date, time)

(* Booking.aggregate([{$match: {restaurantId, date, time, status in
   confirmed/pending}}, {$group: {totalGuests: {$sum: "$guests"}}}]) *)
RECURSIVE TotalGuests(_, _, _, _)
TotalGuests(docs, rid, date, time) ==
    IF docs = <<>> THEN 0
    ELSE LET b == Head(docs)
         IN  (IF /\ b.restaurantId = rid /\ b.date = date /\ b.time = time
                 /\ b.status \in ActiveStatuses
              THEN b.guests ELSE 0)
             + TotalGuests(Tail(docs), rid, date, time)

(* mutant of BookingFind: the status filter is missing *)
BookingFindAnyStatus(docs, rid, date) ==
    SelectSeq(docs, LAMBDA b : b.restaurantId = rid /\ b.date = date)

(* Booking.find({restaurantId, date, status in confirmed/pending}) *)
BookingFind(docs, rid, date) ==
    SelectSeq(docs, LAMBDA b : /\ b.restaurantId = rid /\ b.date = date
                               /\ b.status \in ActiveStatuses)

(* existingBookings.forEach(b => bookingCounts[b.time] =
   (bookingCounts[b.time] || 0) + b.guests) *)
RECURSIVE BookingCounts(_)
BookingCounts(existing) ==
    IF existing = <<>> THEN <<>>
    ELSE LET n == Len(existing)
             counts == BookingCounts(SubSeq(existing, 1, n - 1))
             b == existing[n]
             old == IF b.time \in DOMAIN counts THEN counts[b.time] ELSE 0
         IN  [t \in (DOMAIN counts) \cup {b.time} |->
                 IF t = b.time THEN old + b.guests ELSE counts[t]]

(* mutant of AvailableSlots: the booked guests are not subtracted *)
AvailableSlotsUnbooked(timeSlots, bookingCounts, capacity) ==
    [i \in DOMAIN timeSlots |->
        [time |-> timeSlots[i], available |-> capacity > 0,
         availableCapacity |-> capacity, totalCapacity |-> capacity]]

(* timeSlots.map(time => ({time, available, availableCapacity, totalCapacity})) *)
AvailableSlots(timeSlots, bookingCounts, capacity) ==
    [i \in DOMAIN timeSlots |->
        LET time == timeSlots[i]
            bookedGuests == IF time \in DOMAIN bookingCounts
                            THEN bookingCounts[time] ELSE 0
            availableCapacity == capacity - bookedGuests
        IN  [time |-> time, available |-> availableCapacity > 0,
             availableCapacity |-> availableCapacity,
             totalCapacity |-> capacity]]

(* ------------------------------ caches --------------------------------- *)
cacheHas(cache, key) == key \in DOMAIN cache

cacheSet(cache, key, value) ==
    [k \in (DOMAIN cache) \cup {key} |-> IF k = key THEN value ELSE cache[k]]

cacheDel(cache, key) == [k \in (DOMAIN cache) \ {key} |-> cache[k]]

AvailabilityKey(rid, date) == <<"availability", rid, date>>

UserBookingsKey(customerId, status, dateFrom, dateTo) ==
    <<"user-bookings", customerId, status, dateFrom, dateTo>>

(* ---------------------------- responses -------------------------------- *)

sendValidationError == 400

sendNotFoundError == 404

sendConflictError == 409

(* ------------------------- request bookkeeping ------------------------- *)
InFlight(p) == pc[p] # "idle"

NoReq == [op |-> "none"]

(* the restaurants list page before anything is loaded: the isFavorite flag
   shown for each restaurant, the API call the page waits for, the restaurant
   it is about and the ordinal that request has at the server *)
NoPage == [isFavorite |-> [rid \in RestaurantIds |-> FALSE], call |-> "none",
           restaurantId |-> 0, ticket |-> 0]

(* the server receives a request; it is handled on the first free slot *)
Receive(p) ==
    /\ pc[p] = "idle"
    /\ \A q \in Procs : q < p => InFlight(q)
    /\ started < MaxRequests
    /\ started' = started + 1

(* the handler, with locals r, waits for its next store operation *)
Suspend(p, r, label) ==
    /\ req' = [req EXCEPT ![p] = r]
    /\ pc' = [pc EXCEPT ![p] = label]
    /\ UNCHANGED resp

(* res.status(status).json(body): the handler, with locals r, is finished;
   resp keeps the last response sent and the handler that sent it *)
Respond(p, r, status, body) ==
    /\ resp' = [op |-> r.op, status |-> status, body |-> body]
    /\ req' = [req EXCEPT ![p] = NoReq]
    /\ pc' = [pc EXCEPT ![p] = "idle"]

(* ======================= booking controller ============================ *)

(* BookingDatabase.findRestaurantById returns a document (TRUE) or throws
   NotFoundError (FALSE) *)
findRestaurantById(rid) ==
    rid \in DOMAIN restaurants /\ restaurants[rid].isActive

(* BookingDatabase.findUserBookingById returns the customer's own booking
   (TRUE) or throws NotFoundError (FALSE) *)
findUserBookingById(id, customerId) ==
    id \in DOMAIN bookings /\ bookings[id].customerId = customerId

(* ---- createBooking ---- *)
(* validateCreateBookingInput, then findRestaurantById and the opening-hours
   checks on the document it returned *)
CreateBookingFindRestaurant(p, body) ==
    LET rid == body.restaurantId
        r == [op |-> "createBooking", customerId |-> body.customerId,
              restaurantId |-> rid, date |-> body.date, time |-> body.time,
              guests |-> body.guests,
              capacity |-> IF findRestaurantById(rid)
                           THEN restaurants[rid].capacity ELSE 0,
              availableCapacity |-> 0,
              bookingId |-> 0]
        openingHours == getOpeningHours(restaurants[rid], getDayOfWeek(body.date))
    IN  /\ Receive(p)
        /\ IF ~findRestaurantById(rid)
           THEN Respond(p, r, sendNotFoundError, "Restaurant not found")
           ELSE IF isRestaurantClosed(openingHours)
           THEN Respond(p, r, sendValidationError, "Restaurant is closed")
           ELSE IF ~isTimeWithinHours(body.time, openingHours.open, openingHours.close)
           THEN Respond(p, r, sendValidationError, "Restaurant is closed at time")
           ELSE Suspend(p, r, "cb_aggregate")
        /\ UNCHANGED <<restaurants, bookings, reviews, favorites, bookingCache,
                       restaurantCache, now, acked, listPage>>

(* mutant of CapacityMessage: one message for both cases *)
CapacityMessageNoTables(availableCapacity) == <<"No tables available">>

(* `No tables available at ${time} on ${date}` or
   `Only ${availableCapacity} seats available at ${time} on ${date}` *)
CapacityMessage(availableCapacity) ==
    IF availableCapacity <= 0
    THEN <<"No tables available">>
    ELSE <<"Only seats available", availableCapacity>>

(* the aggregate over the slot's bookings and the capacity check *)
CreateBookingCheckCapacity(p) ==
    /\ pc[p] = "cb_aggregate"
    /\ LET bookedGuests ==
               TotalGuests(bookings, req[p].restaurantId, req[p].date, req[p].time)
           availableCapacity == req[p].capacity - bookedGuests
           r == [req[p] EXCEPT !.availableCapacity = availableCapacity]
       IN  IF r.guests > availableCapacity
           THEN Respond(p, r, sendConflictError, CapacityMessage(availableCapacity))
           ELSE Suspend(p, r, "cb_save")
    /\ UNCHANGED <<restaurants, bookings, reviews, favorites, bookingCache,
                   restaurantCache, now, acked, started, listPage>>

(* startSession, startTransaction, booking.save({session}), commitTransaction *)
CreateBookingSave(p) ==
    /\ pc[p] = "cb_save"
    /\ LET r == req[p]
       IN  bookings' = Append(bookings,
               BookingDoc(r.customerId, r.restaurantId, r.date, r.time,
                          r.guests, "confirmed"))
    /\ Suspend(p, [req[p] EXCEPT !.bookingId = Len(bookings) + 1], "cb_email")
    /\ UNCHANGED <<restaurants, reviews, favorites, bookingCache,
                   restaurantCache, now, acked, started, listPage>>

(* mutant of CreateBookingSaveFails: the failed transaction leaves its insert *)
CreateBookingSaveFailsKeepsInsert(p) ==
    /\ pc[p] = "cb_save"
    /\ bookings' = Append(bookings,
                          BookingDoc(req[p].customerId, req[p].restaurantId,
                                     req[p].date, req[p].time, req[p].guests,
                                     "confirmed"))
    /\ resp' = [op |-> "createBooking", status |-> 500, body |-> "An unexpected error occurred"]
    /\ req' = [req EXCEPT ![p] = [op |-> "none"]]
    /\ pc' = [pc EXCEPT ![p] = "idle"]
    /\ UNCHANGED <<restaurants, reviews, favorites, bookingCache,
                   restaurantCache, now, acked, started, listPage>>

(* save or commit throws: abortTransaction, endSession, handleBookingError *)
CreateBookingSaveFails(p) ==
    /\ pc[p] = "cb_save"
    /\ Respond(p, req[p], 500, "An unexpected error occurred")
    /\ UNCHANGED <<restaurants, bookings, reviews, favorites, bookingCache,
                   restaurantCache, now, acked, started, listPage>>

(* mutant of sendConfirmationEmail: a failed delivery rejects the promise *)
sendConfirmationEmailRethrows(delivered) ==
    IF delivered THEN "resolved" ELSE "rejected"

(* sendConfirmationEmail awaits the mail service inside its own try/catch:
   a failed delivery is logged and the promise resolves all the same *)
sendConfirmationEmail(delivered) == "resolved"

(* the continuation after `await sendConfirmationEmail(...)`.  Resolved:
   endSession, res.status(201), cache.del.  Rejected: the catch of the
   transaction block runs after the commit, the error reaches
   handleBookingError, and the committed booking stays.  The history records
   the bookings whose email was not delivered. *)
AfterEmail(p, delivered) ==
    LET r == req[p]
        failed == IF delivered THEN {} ELSE {r.bookingId}
    IN  IF sendConfirmationEmail(delivered) = "resolved"
        THEN /\ Respond(p, r, 201, [id |-> r.bookingId, status |-> "confirmed"])
             /\ bookingCache' =
                   cacheDel(cacheDel(bookingCache,
                                     UserBookingsKey(r.customerId, "all", 0, 0)),
                            AvailabilityKey(r.restaurantId, r.date))
             /\ acked' = [acked EXCEPT !.created = @ \cup {r.bookingId},
                                       !.emailFailed = @ \cup failed]
        ELSE /\ Respond(p, r, 500, "An unexpected error occurred")
             /\ acked' = [acked EXCEPT !.emailFailed = @ \cup failed]
             /\ UNCHANGED bookingCache

(* the confirmation email was delivered *)
CreateBookingRespond(p) ==
    /\ pc[p] = "cb_email"
    /\ AfterEmail(p, TRUE)
    /\ UNCHANGED <<restaurants, bookings, reviews, favorites,
                   restaurantCache, now, started, listPage>>

(* the mail service failed *)
CreateBookingEmailFails(p) ==
    /\ pc[p] = "cb_email"
    /\ AfterEmail(p, FALSE)
    /\ UNCHANGED <<restaurants, bookings, reviews, favorites,
                   restaurantCache, now, started, listPage>>

(* ---- cancelBooking ---- *)
(* mutant of isPast: no booking is ever in the past *)
neverPast(bookingDateTime, current) == FALSE

(* bookingDateTime < now *)
isPast(bookingDateTime, current) == bookingDateTime < current

(* findUserBookingById and the checks on the document it returned *)
CancelBookingFind(p, customerId, id) ==
    LET found == findUserBookingById(id, customerId)
        r == [op |-> "cancelBooking", customerId |-> customerId, bookingId |-> id,
              restaurantId |-> IF found THEN bookings[id].restaurantId ELSE 0,
              date |-> IF found THEN bookings[id].date ELSE 0]
    IN  /\ Receive(p)
        /\ IF ~found
           THEN Respond(p, r, sendNotFoundError, "Booking not found")
           ELSE IF bookings[id].status = "cancelled"
           THEN Respond(p, r, sendValidationError, "Booking is already cancelled")
           ELSE IF isPast(DateTime(bookings[id].date, bookings[id].time), now)
           THEN Respond(p, r, sendValidationError, "Cannot cancel past bookings")
           ELSE Suspend(p, r, "cn_save")
        /\ UNCHANGED <<restaurants, bookings, reviews, favorites, bookingCache,
                       restaurantCache, now, acked, listPage>>

(* mutant of CancelBookingSave: saving a booking that is cancelled by now
   confirms it again *)
CancelBookingSaveFlips(p) ==
    /\ pc[p] = "cn_save"
    /\ bookings' = [bookings EXCEPT ![req[p].bookingId].status =
                        IF @ = "cancelled" THEN "confirmed" ELSE "cancelled"]
    /\ Suspend(p, req[p], "cn_respond")
    /\ UNCHANGED <<restaurants, reviews, favorites, bookingCache,
                   restaurantCache, now, acked, started, listPage>>

(* booking.status = 'cancelled'; booking.save() *)
CancelBookingSave(p) ==
    /\ pc[p] = "cn_save"
    /\ bookings' = [bookings EXCEPT ![req[p].bookingId].status = "cancelled"]
    /\ Suspend(p, req[p], "cn_respond")
    /\ UNCHANGED <<restaurants, reviews, favorites, bookingCache,
                   restaurantCache, now, acked, started, listPage>>

(* cache.del of the user's list and of the availability entry; res.json *)
CancelBookingRespond(p) ==
    /\ pc[p] = "cn_respond"
    /\ LET r == req[p]
       IN  /\ bookingCache' =
                 cacheDel(cacheDel(bookingCache,
                                   UserBookingsKey(r.customerId, "all", 0, 0)),
                          AvailabilityKey(r.restaurantId, r.date))
           /\ Respond(p, r, 200, [id |-> r.bookingId, status |-> "cancelled"])
           /\ acked' = [acked EXCEPT !.cancelled = @ \cup {r.bookingId}]
    /\ UNCHANGED <<restaurants, bookings, reviews, favorites,
                   restaurantCache, now, started, listPage>>

(* ---- getAvailability ---- *)
(* cache.get(cacheKey): a hit is answered at once *)
GetAvailabilityStart(p, rid, date) ==
    LET r == [op |-> "getAvailability", restaurantId |-> rid, date |-> date,
              capacity |-> 0, openingHours |-> Absent, store |-> <<>>,
              closedAtStart |->
                  isRestaurantClosed(
                      getOpeningHours(restaurants[rid], getDayOfWeek(date))),
              ackedAtStart |-> acked]
        cacheKey == AvailabilityKey(rid, date)
    IN  /\ Receive(p)
        /\ IF cacheHas(bookingCache, cacheKey)
           THEN Respond(p, r, 200, bookingCache[cacheKey])
           ELSE Suspend(p, r, "ga_restaurant")
        /\ UNCHANGED <<restaurants, bookings, reviews, favorites, bookingCache,
                       restaurantCache, now, acked, listPage>>

(* findRestaurantById; the closed-day answer *)
GetAvailabilityFindRestaurant(p) ==
    /\ pc[p] = "ga_restaurant"
    /\ LET r == req[p]
           restaurant == restaurants[r.restaurantId]
           dayOfWeek == getDayOfWeek(r.date)
           openingHours == getOpeningHours(restaurant, dayOfWeek)
       IN  IF ~findRestaurantById(r.restaurantId)
           THEN Respond(p, r, sendNotFoundError, "Restaurant not found")
           ELSE IF isRestaurantClosed(openingHours)
           THEN Respond(p, r, 200, [restaurantId |-> r.restaurantId, date |-> r.date,
                                    availableSlots |-> <<>>, counted |-> {}])
           ELSE Suspend(p, [r EXCEPT !.capacity = restaurant.capacity,
                                     !.openingHours = openingHours], "ga_bookings")
    /\ UNCHANGED <<restaurants, bookings, reviews, favorites, bookingCache,
                   restaurantCache, now, acked, started, listPage>>

(* the store executes Booking.find: the handler will see this snapshot *)
GetAvailabilityFindBookings(p) ==
    /\ pc[p] = "ga_bookings"
    /\ Suspend(p, [req[p] EXCEPT !.store = bookings], "ga_respond")
    /\ UNCHANGED <<restaurants, bookings, reviews, favorites, bookingCache,
                   restaurantCache, now, acked, started, listPage>>

(* the response built from the documents found; `counted` is history: the
   ids of the bookings whose guests entered a listed slot *)
AvailabilityResponse(r) ==
    LET timeSlots == generateTimeSlots(r.openingHours.open, r.openingHours.close)
        existingBookings == BookingFind(r.store, r.restaurantId, r.date)
        bookingCounts == BookingCounts(existingBookings)
    IN  [restaurantId |-> r.restaurantId, date |-> r.date,
         availableSlots |-> AvailableSlots(timeSlots, bookingCounts, r.capacity),
         counted |-> {i \in DOMAIN r.store :
                        /\ r.store[i] \in {existingBookings[k] : k \in DOMAIN existingBookings}
                        /\ \E k \in DOMAIN timeSlots : timeSlots[k] = r.store[i].time}]

(* bookingCounts, availableSlots, cache.set(cacheKey, ..., 300), res.json *)
GetAvailabilityRespond(p) ==
    /\ pc[p] = "ga_respond"
    /\ LET r == req[p]
           response == AvailabilityResponse(r)
       IN  /\ bookingCache' =
                 cacheSet(bookingCache, AvailabilityKey(r.restaurantId, r.date), response)
           /\ Respond(p, r, 200, response)
    /\ UNCHANGED <<restaurants, bookings, reviews, favorites,
                   restaurantCache, now, acked, started, listPage>>

(* ---- getUserBookings ---- *)
(* a query parameter of getUserBookings: status || 'all', dateFrom || '',
   dateTo || ''; an absent date is 0 *)
BookingsParam(query, name) ==
    IF name \in DOMAIN query THEN query[name]
    ELSE IF name = "status" THEN "all" ELSE 0

(* mutant of BookingsFilter: the customer's bookings of every status *)
BookingsFilterAnyStatus(doc, customerId, query) ==
    /\ doc.customerId = customerId
    /\ BookingsParam(query, "dateFrom") # 0 => doc.date >= BookingsParam(query, "dateFrom")
    /\ BookingsParam(query, "dateTo") # 0 => doc.date <= BookingsParam(query, "dateTo")

(* the filter document: customerId, status unless 'all', date.$gte, date.$lte *)
BookingsFilter(doc, customerId, query) ==
    /\ doc.customerId = customerId
    /\ BookingsParam(query, "status") # "all" => doc.status = BookingsParam(query, "status")
    /\ BookingsParam(query, "dateFrom") # 0 => doc.date >= BookingsParam(query, "dateFrom")
    /\ BookingsParam(query, "dateTo") # 0 => doc.date <= BookingsParam(query, "dateTo")

(* Booking.find(filter).sort({createdAt: -1}), formatted: newest first *)
RECURSIVE FormattedBookings(_, _, _)
FormattedBookings(docs, customerId, query) ==
    IF docs = <<>> THEN <<>>
    ELSE LET n == Len(docs)
             older == FormattedBookings(SubSeq(docs, 1, n - 1), customerId, query)
         IN  IF BookingsFilter(docs[n], customerId, query)
             THEN <<[id |-> n, restaurantId |-> docs[n].restaurantId,
                     date |-> docs[n].date, time |-> docs[n].time,
                     guests |-> docs[n].guests, status |-> docs[n].status]>> \o older
             ELSE older

(* cache.get(cacheKey): a hit is answered at once *)
GetUserBookingsStart(p, customerId, query) ==
    LET r == [op |-> "getUserBookings", customerId |-> customerId, query |-> query,
              store |-> <<>>, ackedAtStart |-> acked]
        cacheKey == UserBookingsKey(customerId, BookingsParam(query, "status"),
                                    BookingsParam(query, "dateFrom"),
                                    BookingsParam(query, "dateTo"))
    IN  /\ Receive(p)
        /\ IF cacheHas(bookingCache, cacheKey)
           THEN Respond(p, r, 200, bookingCache[cacheKey])
           ELSE Suspend(p, r, "gu_find")
        /\ UNCHANGED <<restaurants, bookings, reviews, favorites, bookingCache,
                       restaurantCache, now, acked, listPage>>

(* the store executes Booking.find(filter): the handler will see this snapshot *)
GetUserBookingsFind(p) ==
    /\ pc[p] = "gu_find"
    /\ Suspend(p, [req[p] EXCEPT !.store = bookings], "gu_respond")
    /\ UNCHANGED <<restaurants, bookings, reviews, favorites, bookingCache,
                   restaurantCache, now, acked, started, listPage>>

(* formattedBookings, cache.set(cacheKey, ...), res.json.  The list is tagged
   with the customer and the query it answers (history) *)
GetUserBookingsRespond(p) ==
    /\ pc[p] = "gu_respond"
    /\ LET r == req[p]
           cacheKey == UserBookingsKey(r.customerId, BookingsParam(r.query, "status"),
                                       BookingsParam(r.query, "dateFrom"),
                                       BookingsParam(r.query, "dateTo"))
           response == [customerId |-> r.customerId, query |-> r.query,
                        bookings |-> FormattedBookings(r.store, r.customerId, r.query)]
       IN  /\ bookingCache' = cacheSet(bookingCache, cacheKey, response)
           /\ Respond(p, r, 200, response)
    /\ UNCHANGED <<restaurants, bookings, reviews, favorites,
                   restaurantCache, now, acked, started, listPage>>

(* an entry of the booking cache reaches its time-to-live *)
BookingCacheExpire ==
    /\ \E key \in DOMAIN bookingCache : bookingCache' = cacheDel(bookingCache, key)
    /\ UNCHANGED <<restaurants, bookings, reviews, favorites,
                   restaurantCache, now, pc, req, resp, acked, started, listPage>>

(* the wall clock advances *)
MaxNow == DateTime(1, 0) + MaxTicks

Tick ==
    /\ now < MaxNow
    /\ now' = now + 1
    /\ UNCHANGED <<restaurants, bookings, reviews, favorites, bookingCache,
                   restaurantCache, pc, req, resp, acked, started, listPage>>

(* ===================== restaurant controller =========================== *)

(* findByIdAndUpdate(restaurantId, updateData): the fields of updateData
   replace the document's *)
ApplyUpdate(doc, updateData) ==
    [f \in DOMAIN doc |-> IF f \in DOMAIN updateData THEN updateData[f] ELSE doc[f]]

(* mutant of IsOwner: every authenticated owner passes *)
AnyOwner(restaurant, ownerId) == TRUE

(* restaurant.ownerId.toString() === ownerId *)
IsOwner(restaurant, ownerId) == restaurant.ownerId = ownerId

(* the body of a refusal, tagged with the requester and the restaurant asked
   for (history) *)
Refusal(r, error) ==
    [error |-> error, ownerId |-> r.ownerId, restaurantId |-> r.restaurantId]

(* ---- getRestaurantStats ---- *)
(* new Date().toISOString().split("T")[0] *)
Today(current) == current \div (MaxTime + 1)

(* the five queries of the Promise.all *)
StatQueries == {"totalBookings", "todayBookings", "upcomingBookings",
                "totalReviews", "averageRating"}

(* the result of one of the five queries on the collections as they are *)
StatQuery(name, rid, today) ==
    LET ofRestaurant == {id \in DOMAIN bookings : bookings[id].restaurantId = rid}
        ratings == {v \in reviews : v.restaurantId = rid}
        RECURSIVE Sum(_)
        Sum(S) == IF S = {} THEN 0
                  ELSE LET v == CHOOSE x \in S : TRUE IN v.rating + Sum(S \ {v})
    IN  CASE name = "totalBookings" -> Cardinality(ofRestaurant)
          [] name = "todayBookings" ->
               Cardinality({id \in ofRestaurant :
                               /\ bookings[id].date = today
                               /\ bookings[id].status \in {"confirmed", "pending"}})
          [] name = "upcomingBookings" ->
               Cardinality({id \in ofRestaurant :
                               /\ bookings[id].date >= today
                               /\ bookings[id].status \in {"confirmed", "pending"}})
          [] name = "totalReviews" -> Cardinality(ratings)
          [] name = "averageRating" ->
               IF ratings = {} THEN 0 ELSE Sum(ratings) \div Cardinality(ratings)

(* Restaurant.findById and the ownership check; the five queries are issued,
   with the date of that moment *)
GetRestaurantStatsFind(p, ownerId, rid) ==
    LET r == [op |-> "getRestaurantStats", ownerId |-> ownerId, restaurantId |-> rid,
              today |-> Today(now), pending |-> StatQueries,
              stats |-> [name \in StatQueries |-> 0]]
    IN  /\ Receive(p)
        /\ IF rid \notin DOMAIN restaurants
           THEN Respond(p, r, 404, Refusal(r, "Restaurant not found"))
           ELSE IF ~IsOwner(restaurants[rid], ownerId)
           THEN Respond(p, r, 403, Refusal(r, "You don't have permission"))
           ELSE Suspend(p, r, "gs_counts")
        /\ UNCHANGED <<restaurants, bookings, reviews, favorites, bookingCache,
                       restaurantCache, now, acked, listPage>>

(* the store runs one of the queries still pending, in any order *)
GetRestaurantStatsCount(p, name) ==
    /\ pc[p] = "gs_counts"
    /\ name \in req[p].pending
    /\ Suspend(p, [req[p] EXCEPT
                      !.pending = @ \ {name},
                      !.stats[name] = StatQuery(name, req[p].restaurantId, req[p].today)],
               "gs_counts")
    /\ UNCHANGED <<restaurants, bookings, reviews, favorites, bookingCache,
                   restaurantCache, now, acked, started, listPage>>

(* Promise.all resolves; res.json *)
GetRestaurantStatsRespond(p) ==
    /\ pc[p] = "gs_counts"
    /\ req[p].pending = {}
    /\ Respond(p, req[p], 200, [restaurantId |-> req[p].restaurantId,
                                stats |-> req[p].stats])
    /\ UNCHANGED <<restaurants, bookings, reviews, favorites, bookingCache,
                   restaurantCache, now, acked, started, listPage>>

(* ---- updateRestaurant ---- *)
(* Restaurant.findById and the ownership check *)
UpdateRestaurantFind(p, ownerId, rid, updateData) ==
    LET r == [op |-> "updateRestaurant", ownerId |-> ownerId,
              restaurantId |-> rid, updateData |-> updateData]
    IN  /\ Receive(p)
        /\ IF rid \notin DOMAIN restaurants
           THEN Respond(p, r, 404, Refusal(r, "Restaurant not found"))
           ELSE IF ~IsOwner(restaurants[rid], ownerId)
           THEN Respond(p, r, 403, Refusal(r, "You don't have permission"))
           ELSE Suspend(p, r, "ur_update")
        /\ UNCHANGED <<restaurants, bookings, reviews, favorites, bookingCache,
                       restaurantCache, now, acked, listPage>>

(* Restaurant.findByIdAndUpdate(...), res.json; the history records an update
   that switched the restaurant back on *)
UpdateRestaurantUpdate(p) ==
    /\ pc[p] = "ur_update"
    /\ LET r == req[p]
           found == r.restaurantId \in DOMAIN restaurants
           reactivates == /\ "isActive" \in DOMAIN r.updateData
                          /\ r.updateData.isActive
       IN  /\ restaurants' =
                 IF found
                 THEN [restaurants EXCEPT ![r.restaurantId] = ApplyUpdate(@, r.updateData)]
                 ELSE restaurants
           /\ Respond(p, r, 200, IF found THEN restaurants'[r.restaurantId] ELSE <<>>)
           /\ acked' = IF found /\ reactivates
                       THEN [acked EXCEPT !.reactivated = @ \cup {r.restaurantId}]
                       ELSE acked
    /\ UNCHANGED <<bookings, reviews, favorites, bookingCache,
                   restaurantCache, now, started, listPage>>

(* ---- the store's query facilities ---- *)
Abs(x) == IF x < 0 THEN -x ELSE x

(* the collection in insertion order, each document with its _id *)
Collection(docs) ==
    LET ids == DOMAIN docs
        RECURSIVE Asc(_)
        Asc(S) == IF S = {} THEN <<>>
                  ELSE LET m == CHOOSE x \in S : \A y \in S : x <= y
                       IN  <<[id |-> m, distance |-> 0, doc |-> docs[m]]>> \o Asc(S \ {m})
    IN  Asc(ids)

(* a filter document: every field it names must be equal *)
Matches(doc, filter) == \A f \in DOMAIN filter : doc[f] = filter[f]

Key(e, by) == IF by = "distance" THEN e.distance ELSE e.doc[by]

(* stable sort, ascending by the key *)
RECURSIVE SortBy(_, _)
SortBy(list, by) ==
    IF list = <<>> THEN <<>>
    ELSE LET sorted == SortBy(SubSeq(list, 1, Len(list) - 1), by)
             e == list[Len(list)]
             before == SelectSeq(sorted, LAMBDA x : Key(x, by) <= Key(e, by))
             after == SelectSeq(sorted, LAMBDA x : Key(x, by) > Key(e, by))
         IN  before \o <<e>> \o after

Skip(list, n) == SubSeq(list, n + 1, Len(list))

Limit(list, n) == SubSeq(list, 1, IF n < Len(list) THEN n ELSE Len(list))

(* mutant of GeoNear: no maxDistance *)
GeoNearUnbounded(list, near, maxDistance, query) ==
    LET withDistance ==
            [k \in DOMAIN list |->
                [list[k] EXCEPT !.distance =
                    (IF list[k].doc.geometry < near THEN near - list[k].doc.geometry
                     ELSE list[k].doc.geometry - near) * 1000]]
        RECURSIVE Ins(_, _)
        Ins(sorted, e) ==
            IF sorted = <<>> THEN <<e>>
            ELSE IF e.distance < Head(sorted).distance THEN <<e>> \o sorted
            ELSE <<Head(sorted)>> \o Ins(Tail(sorted), e)
        RECURSIVE Srt(_)
        Srt(l) == IF l = <<>> THEN <<>> ELSE Ins(Srt(Tail(l)), Head(l))
    IN  Srt(SelectSeq(withDistance, LAMBDA e : \A f \in DOMAIN query : e.doc[f] = query[f]))

(* $geoNear: the documents within maxDistance metres of the point, each with
   its distance, nearest first; `query` filters them *)
GeoNear(list, near, maxDistance, query) ==
    LET withDistance ==
            [k \in DOMAIN list |->
                [list[k] EXCEPT !.distance = Abs(list[k].doc.geometry - near) * 1000]]
    IN  SortBy(SelectSeq(withDistance,
                         LAMBDA e : e.distance <= maxDistance /\ Matches(e.doc, query)),
               "distance")

(* Restaurant.aggregate(pipeline) *)
RECURSIVE Aggregate(_, _)
Aggregate(pipeline, list) ==
    IF pipeline = <<>> THEN list
    ELSE LET st == Head(pipeline)
             out == CASE st.stage = "geoNear" ->
                           GeoNear(list, st.near, st.maxDistance, st.query)
                      [] st.stage = "match" ->
                           SelectSeq(list, LAMBDA e : Matches(e.doc, st.query))
                      [] st.stage = "sort" -> SortBy(list, st.by)
                      [] st.stage = "skip" -> Skip(list, st.n)
                      [] st.stage = "limit" -> Limit(list, st.n)
                      [] st.stage = "count" ->
                           IF list = <<>> THEN <<>> ELSE <<[total |-> Len(list)]>>
                      [] OTHER -> list
         IN  Aggregate(Tail(pipeline), out)

(* Restaurant.find(filter).sort({name: 1}).skip(skip).limit(limit) *)
Find(docs, filter, sortBy, skip, limit) ==
    LET matching == SelectSeq(Collection(docs), LAMBDA e : Matches(e.doc, filter))
        sorted == IF sortBy = "" THEN matching ELSE SortBy(matching, sortBy)
    IN  Limit(Skip(sorted, skip), limit)

(* mutant of CountDocuments: the filter is ignored *)
CountAllDocuments(docs, filter) == Cardinality(DOMAIN docs)

(* Restaurant.countDocuments(filter) *)
CountDocuments(docs, filter) ==
    Cardinality({id \in DOMAIN docs : Matches(docs[id], filter)})

(* a query parameter, or its default when the request leaves it out *)
Param(query, name, default) ==
    IF name \in DOMAIN query THEN query[name] ELSE default

(* a query-string value is the sequence of its characters *)
DigitValue(c) ==
    CASE c = "0" -> 0 [] c = "1" -> 1 [] c = "2" -> 2 [] c = "3" -> 3
      [] c = "4" -> 4 [] c = "5" -> 5 [] c = "6" -> 6 [] c = "7" -> 7
      [] c = "8" -> 8 [] c = "9" -> 9 [] OTHER -> -1

NaN == [nan |-> TRUE, value |-> 0]

(* parseFloat of a text of digits, "-" and letters: an optional sign and the
   longest run of digits after it, whatever follows; NaN without a digit *)
parseFloat(text) ==
    LET neg == text # <<>> /\ text[1] = "-"
        body == IF neg THEN Tail(text) ELSE text
        n == Cardinality({k \in DOMAIN body :
                            \A j \in 1..k : DigitValue(body[j]) >= 0})
        RECURSIVE Decimal(_)
        Decimal(digits) ==
            IF digits = <<>> THEN 0
            ELSE 10 * Decimal(SubSeq(digits, 1, Len(digits) - 1))
                 + DigitValue(digits[Len(digits)])
    IN  IF n = 0 THEN NaN
        ELSE [nan |-> FALSE,
              value |-> (IF neg THEN -1 ELSE 1) * Decimal(SubSeq(body, 1, n))]

isNaN(x) == x.nan

(* ---- getRestaurants ---- *)
(* the cache holds the default browse only: no location, cuisine, priceRange,
   latitude or longitude in the query *)
IsDefaultBrowse(query) ==
    DOMAIN query \cap {"location", "cuisine", "priceRange", "latitude", "longitude"} = {}

(* the aggregation pipeline of a coordinate search, before the paging stages *)
GeoPipeline(query) ==
    <<[stage |-> "geoNear", near |-> parseFloat(query.latitude).value,
       maxDistance |-> parseFloat(Param(query, "radius", <<"1", "0">>)).value * 1000,
       query |-> <<>>],
      [stage |-> "match", query |-> [isActive |-> TRUE]]>>
    \o (IF "cuisine" \in DOMAIN query
        THEN <<[stage |-> "match", query |-> [cuisine |-> query.cuisine]]>> ELSE <<>>)
    \o (IF "priceRange" \in DOMAIN query
        THEN <<[stage |-> "match", query |-> [priceRange |-> query.priceRange]]>>
        ELSE <<>>)

PagedPipeline(query) ==
    GeoPipeline(query)
    \o <<[stage |-> "sort", by |-> "distance"],
         [stage |-> "skip", n |-> (Param(query, "page", 1) - 1) * Param(query, "limit", 10)],
         [stage |-> "limit", n |-> Param(query, "limit", 10)],
         [stage |-> "lookup"],
         [stage |-> "unwind"]>>

(* aggregationPipeline.slice(0, -3), then $count *)
CountPipeline(query) ==
    LET aggregationPipeline == PagedPipeline(query)
    IN  SubSeq(aggregationPipeline, 1, Len(aggregationPipeline) - 3)
        \o <<[stage |-> "count"]>>

ListFilter(query) ==
    [f \in {"isActive"} \cup ((DOMAIN query) \cap {"cuisine", "priceRange"}) |->
        IF f = "isActive" THEN TRUE ELSE query[f]]

(* latitude && longitude *)
IsGeoQuery(query) ==
    /\ {"latitude", "longitude"} \subseteq DOMAIN query
    /\ query.latitude # <<>>
    /\ query.longitude # <<>>

(* isNaN(lat) || isNaN(lng) || isNaN(radiusInKm) *)
GeoQueryInvalid(query) ==
    \/ isNaN(parseFloat(query.latitude))
    \/ isNaN(parseFloat(query.longitude))
    \/ isNaN(parseFloat(Param(query, "radius", <<"1", "0">>)))

(* cache.get(cacheKey) for the default browse: a hit is answered at once *)
GetRestaurantsStart(p, query) ==
    LET r == [op |-> "getRestaurants", query |-> query, restaurants |-> <<>>,
              total |-> 0, ackedAtStart |-> acked]
    IN  /\ Receive(p)
        /\ IF IsDefaultBrowse(query) /\ cacheHas(restaurantCache, <<"list", query>>)
           THEN Respond(p, r, 200,
                        [restaurantCache[<<"list", query>>] EXCEPT !.cache = TRUE])
           ELSE IF IsGeoQuery(query) /\ GeoQueryInvalid(query)
           THEN Respond(p, r, 400, "Invalid coordinates or radius")
           ELSE Suspend(p, r, "gr_find")
        /\ UNCHANGED <<restaurants, bookings, reviews, favorites, bookingCache,
                       restaurantCache, now, acked, listPage>>

(* Restaurant.aggregate(aggregationPipeline) or Restaurant.find(filter)... *)
GetRestaurantsFind(p) ==
    /\ pc[p] = "gr_find"
    /\ LET query == req[p].query
           skip == (Param(query, "page", 1) - 1) * Param(query, "limit", 10)
           found == IF IsGeoQuery(query)
                    THEN Aggregate(PagedPipeline(query), Collection(restaurants))
                    ELSE Find(restaurants, ListFilter(query), "name", skip,
                              Param(query, "limit", 10))
       IN  Suspend(p, [req[p] EXCEPT !.restaurants = found], "gr_count")
    /\ UNCHANGED <<restaurants, bookings, reviews, favorites, bookingCache,
                   restaurantCache, now, acked, started, listPage>>

(* Restaurant.aggregate(countPipeline) or Restaurant.countDocuments(filter) *)
GetRestaurantsCount(p) ==
    /\ pc[p] = "gr_count"
    /\ LET query == req[p].query
           countResult == Aggregate(CountPipeline(query), Collection(restaurants))
           total == IF IsGeoQuery(query)
                    THEN (IF countResult = <<>> THEN 0 ELSE countResult[1].total)
                    ELSE CountDocuments(restaurants, ListFilter(query))
       IN  Suspend(p, [req[p] EXCEPT !.total = total], "gr_respond")
    /\ UNCHANGED <<restaurants, bookings, reviews, favorites, bookingCache,
                   restaurantCache, now, acked, started, listPage>>

(* the response; cache.set(cacheKey, ...) for the default browse; res.json *)
GetRestaurantsRespond(p) ==
    /\ pc[p] = "gr_respond"
    /\ LET r == req[p]
           response == [restaurants |-> r.restaurants, total |-> r.total,
                        page |-> Param(r.query, "page", 1),
                        limit |-> Param(r.query, "limit", 10), cache |-> FALSE]
       IN  /\ restaurantCache' =
                 IF IsDefaultBrowse(r.query)
                 THEN cacheSet(restaurantCache, <<"list", r.query>>, response)
                 ELSE restaurantCache
           /\ Respond(p, r, 200, response)
    /\ UNCHANGED <<restaurants, bookings, reviews, favorites, bookingCache,
                   now, acked, started, listPage>>

(* ---- getNearbyRestaurants ---- *)
(* the handler's lat, lng and radiusKm *)
NearbyLat(query) == parseFloat(query.latitude)

NearbyLng(query) == parseFloat(query.longitude)

NearbyRadiusKm(query) == parseFloat(Param(query, "radius", <<"5">>))

(* !latitude || !longitude; isNaN; the range checks; radiusKm <= 0 *)
NearbyInvalid(query) ==
    \/ ~({"latitude", "longitude"} \subseteq DOMAIN query)
    \/ query.latitude = <<>> \/ query.longitude = <<>>
    \/ isNaN(NearbyLat(query)) \/ isNaN(NearbyLng(query)) \/ isNaN(NearbyRadiusKm(query))
    \/ NearbyLat(query).value < -90 \/ NearbyLat(query).value > 90
    \/ NearbyLng(query).value < -180 \/ NearbyLng(query).value > 180
    \/ NearbyRadiusKm(query).value <= 0

NearbyFilter(query) == ListFilter(query)

NearbyGeoNear(query) ==
    [stage |-> "geoNear", near |-> NearbyLat(query).value,
     maxDistance |-> NearbyRadiusKm(query).value * 1000, query |-> NearbyFilter(query)]

(* validation, then the first aggregate: $geoNear, $sort, $skip, $limit *)
GetNearbyRestaurantsAggregate(p, query) ==
    LET r == [op |-> "getNearbyRestaurants", query |-> query, restaurants |-> <<>>,
              ackedAtStart |-> acked]
        skip == (Param(query, "page", 1) - 1) * Param(query, "limit", 10)
        found == Aggregate(<<NearbyGeoNear(query),
                             [stage |-> "sort", by |-> "distance"],
                             [stage |-> "skip", n |-> skip],
                             [stage |-> "limit", n |-> Param(query, "limit", 10)]>>,
                           Collection(restaurants))
    IN  /\ Receive(p)
        /\ IF NearbyInvalid(query)
           THEN Respond(p, r, 400, "Invalid location")
           ELSE Suspend(p, [r EXCEPT !.restaurants = found], "gn_count")
        /\ UNCHANGED <<restaurants, bookings, reviews, favorites, bookingCache,
                       restaurantCache, now, acked, listPage>>

(* the second aggregate: $geoNear, $count; res.json *)
GetNearbyRestaurantsCount(p) ==
    /\ pc[p] = "gn_count"
    /\ LET r == req[p]
           totalCount == Aggregate(<<NearbyGeoNear(r.query), [stage |-> "count"]>>,
                                   Collection(restaurants))
           total == IF Len(totalCount) > 0 THEN totalCount[1].total ELSE 0
       IN  Respond(p, r, 200, [restaurants |-> r.restaurants, total |-> total,
                               page |-> Param(r.query, "page", 1),
                               limit |-> Param(r.query, "limit", 10), cache |-> FALSE])
    /\ UNCHANGED <<restaurants, bookings, reviews, favorites, bookingCache,
                   restaurantCache, now, acked, started, listPage>>

(* the geospatial query throws: the handler falls back to Restaurant.find *)
GetNearbyRestaurantsGeoFails(p) ==
    /\ pc[p] = "gn_count"
    /\ Suspend(p, [req[p] EXCEPT !.restaurants = <<>>], "gn_fallback")
    /\ UNCHANGED <<restaurants, bookings, reviews, favorites, bookingCache,
                   restaurantCache, now, acked, started, listPage>>

(* Restaurant.find(filter).skip(skip).limit(limit), with the mock distance *)
GetNearbyRestaurantsFallbackFind(p) ==
    /\ pc[p] = "gn_fallback"
    /\ LET query == req[p].query
           skip == (Param(query, "page", 1) - 1) * Param(query, "limit", 10)
           found == Find(restaurants, NearbyFilter(query), "", skip,
                         Param(query, "limit", 10))
           mocked == [k \in DOMAIN found |-> [found[k] EXCEPT !.distance = 1000]]
       IN  Suspend(p, [req[p] EXCEPT !.restaurants = mocked], "gn_fallback_count")
    /\ UNCHANGED <<restaurants, bookings, reviews, favorites, bookingCache,
                   restaurantCache, now, acked, started, listPage>>

(* Restaurant.countDocuments(filter); res.json *)
GetNearbyRestaurantsFallbackCount(p) ==
    /\ pc[p] = "gn_fallback_count"
    /\ LET r == req[p]
       IN  Respond(p, r, 200,
                   [restaurants |-> r.restaurants,
                    total |-> CountDocuments(restaurants, NearbyFilter(r.query)),
                    page |-> Param(r.query, "page", 1),
                    limit |-> Param(r.query, "limit", 10), cache |-> FALSE])
    /\ UNCHANGED <<restaurants, bookings, reviews, favorites, bookingCache,
                   restaurantCache, now, acked, started, listPage>>

(* ---- getRestaurantById ---- *)
(* cache.get(`restaurant_${id}`): a hit is answered at once *)
GetRestaurantByIdStart(p, id) ==
    LET r == [op |-> "getRestaurantById", restaurantId |-> id,
              restaurant |-> <<>>, ackedAtStart |-> acked,
              inactiveAtStart |-> id \in DOMAIN restaurants /\ ~restaurants[id].isActive]
    IN  /\ Receive(p)
        /\ IF cacheHas(restaurantCache, <<"restaurant", id>>)
           THEN Respond(p, r, 200,
                        [id |-> id, doc |-> restaurantCache[<<"restaurant", id>>],
                         cache |-> TRUE])
           ELSE Suspend(p, r, "gi_find")
        /\ UNCHANGED <<restaurants, bookings, reviews, favorites, bookingCache,
                       restaurantCache, now, acked, listPage>>

(* Restaurant.findById(id) *)
GetRestaurantByIdFind(p) ==
    /\ pc[p] = "gi_find"
    /\ LET r == req[p]
       IN  IF r.restaurantId \notin DOMAIN restaurants
           THEN Respond(p, r, 404, "Restaurant not found")
           ELSE IF ~restaurants[r.restaurantId].isActive
           THEN Respond(p, r, 404, "Restaurant is not available")
           ELSE Suspend(p, [r EXCEPT !.restaurant = restaurants[r.restaurantId]],
                        "gi_respond")
    /\ UNCHANGED <<restaurants, bookings, reviews, favorites, bookingCache,
                   restaurantCache, now, acked, started, listPage>>

(* cache.set(cacheKey, restaurant); res.json(restaurant) *)
GetRestaurantByIdRespond(p) ==
    /\ pc[p] = "gi_respond"
    /\ LET r == req[p]
       IN  /\ restaurantCache' =
                 cacheSet(restaurantCache, <<"restaurant", r.restaurantId>>, r.restaurant)
           /\ Respond(p, r, 200, [id |-> r.restaurantId, doc |-> r.restaurant,
                                  cache |-> FALSE])
    /\ UNCHANGED <<restaurants, bookings, reviews, favorites, bookingCache,
                   now, acked, started, listPage>>

(* ---- deleteRestaurant ---- *)
(* mutant of SoftDelete: the document is removed from the collection *)
HardDelete(docs, rid) == [id \in (DOMAIN docs) \ {rid} |-> docs[id]]

(* restaurant.isActive = false; restaurant.save() writes the modified path *)
SoftDelete(docs, rid) == [docs EXCEPT ![rid].isActive = FALSE]

(* Restaurant.findById and the ownership check *)
DeleteRestaurantFind(p, ownerId, rid) ==
    LET r == [op |-> "deleteRestaurant", ownerId |-> ownerId, restaurantId |-> rid]
    IN  /\ Receive(p)
        /\ IF rid \notin DOMAIN restaurants
           THEN Respond(p, r, 404, Refusal(r, "Restaurant not found"))
           ELSE IF ~IsOwner(restaurants[rid], ownerId)
           THEN Respond(p, r, 403, Refusal(r, "You don't have permission"))
           ELSE Suspend(p, r, "dr_save")
        /\ UNCHANGED <<restaurants, bookings, reviews, favorites, bookingCache,
                       restaurantCache, now, acked, listPage>>

(* restaurant.isActive = false; restaurant.save(); res.json *)
DeleteRestaurantSave(p) ==
    /\ pc[p] = "dr_save"
    /\ LET r == req[p]
       IN  /\ restaurants' = SoftDelete(restaurants, r.restaurantId)
           /\ Respond(p, r, 200, "Restaurant deleted successfully")
           /\ acked' = [acked EXCEPT !.deleted = @ \cup {r.restaurantId}]
    /\ UNCHANGED <<bookings, reviews, favorites, bookingCache,
                   restaurantCache, now, started, listPage>>

(* ---- toggleFavorite ---- *)
(* req.user.role *)
RoleOf(userId) == IF userId \in Users THEN "customer" ELSE "owner"

(* mutant of UniqueIndexAllows: the collection has no unique index *)
NoUniqueIndex(docs, doc) == TRUE

(* favoriteSchema.index({userId: 1, restaurantId: 1}, {unique: true}): the
   store accepts an insert only if no document has the same pair *)
UniqueIndexAllows(docs, doc) ==
    ~\E f \in docs : f.userId = doc.userId /\ f.restaurantId = doc.restaurantId

(* the role check, Restaurant.findById and the active check *)
ToggleFavoriteFindRestaurant(p, userId, rid) ==
    LET r == [op |-> "toggleFavorite", userId |-> userId, restaurantId |-> rid,
              existingFavorite |-> -1, n |-> started + 1,
              before |-> favorites, previous |-> resp]
    IN  /\ Receive(p)
        /\ IF RoleOf(userId) # "customer"
           THEN Respond(p, r, 403, "Only customers can manage favorites")
           ELSE IF rid \notin DOMAIN restaurants \/ ~restaurants[rid].isActive
           THEN Respond(p, r, 404, "Restaurant not found or not active")
           ELSE Suspend(p, r, "tf_findOne")
        /\ UNCHANGED <<restaurants, bookings, reviews, favorites, bookingCache,
                       restaurantCache, now, acked, listPage>>

(* Favorite.findOne({userId, restaurantId}): the _id found, or -1 *)
ToggleFavoriteFindOne(p) ==
    /\ pc[p] = "tf_findOne"
    /\ LET r == req[p]
           found == {f \in favorites : /\ f.userId = r.userId
                                       /\ f.restaurantId = r.restaurantId}
       IN  IF found # {}
           THEN Suspend(p, [r EXCEPT !.existingFavorite =
                                        (CHOOSE f \in found :
                                            \A g \in found : f.id <= g.id).id],
                        "tf_delete")
           ELSE Suspend(p, r, "tf_save")
    /\ UNCHANGED <<restaurants, bookings, reviews, favorites, bookingCache,
                   restaurantCache, now, acked, started, listPage>>

(* the body of a toggleFavorite success response; the request's customer and
   restaurant and the collection it found on arrival are history *)
Toggled(r, isFavorited) ==
    [isFavorited |-> isFavorited, userId |-> r.userId,
     restaurantId |-> r.restaurantId, before |-> r.before]

(* mutant of ToggleFavoriteDelete: the favorite is reported removed and kept *)
ToggleFavoriteDeleteKeeps(p) ==
    /\ pc[p] = "tf_delete"
    /\ favorites' = favorites
    /\ Respond(p, req[p], 200, Toggled(req[p], FALSE))
    /\ UNCHANGED <<restaurants, bookings, reviews, bookingCache,
                   restaurantCache, now, acked, started, listPage>>

(* Favorite.deleteOne({_id: existingFavorite._id}); res.json *)
ToggleFavoriteDelete(p) ==
    /\ pc[p] = "tf_delete"
    /\ favorites' = {f \in favorites : f.id # req[p].existingFavorite}
    /\ Respond(p, req[p], 200, Toggled(req[p], FALSE))
    /\ UNCHANGED <<restaurants, bookings, reviews, bookingCache,
                   restaurantCache, now, acked, started, listPage>>

(* favorite.save(): inserted and answered 201, or rejected by the unique
   index, which throws into the catch: 500 *)
ToggleFavoriteSave(p) ==
    /\ pc[p] = "tf_save"
    /\ LET r == req[p]
           favorite == [id |-> r.n, userId |-> r.userId, restaurantId |-> r.restaurantId]
       IN  IF UniqueIndexAllows(favorites, favorite)
           THEN /\ favorites' = favorites \cup {favorite}
                /\ Respond(p, r, 201, Toggled(r, TRUE))
           ELSE /\ favorites' = favorites
                /\ Respond(p, r, 500, "Failed to manage favorite")
    /\ UNCHANGED <<restaurants, bookings, reviews, bookingCache,
                   restaurantCache, now, acked, started, listPage>>

(* ---- checkFavoriteStatus ---- *)
(* the role check, Favorite.findOne({userId, restaurantId}), res.json *)
CheckFavoriteStatus(p, userId, rid) ==
    LET r == [op |-> "checkFavoriteStatus", userId |-> userId, restaurantId |-> rid]
    IN  /\ Receive(p)
        /\ IF RoleOf(userId) # "customer"
           THEN Respond(p, r, 403, "Only customers can check favorite status")
           ELSE Respond(p, r, 200,
                    [isFavorited |-> \E f \in favorites : /\ f.userId = userId
                                                          /\ f.restaurantId = rid])
        /\ UNCHANGED <<restaurants, bookings, reviews, favorites, bookingCache,
                       restaurantCache, now, acked, listPage>>

(* ---- RestaurantsComponent, ApiService ---- *)
(* the customer logged in on the page *)
PageCustomer == 1

(* the page's request has been answered: resp is its response *)
PageAnswered(call) ==
    /\ listPage.call = call
    /\ listPage.ticket = started
    /\ \A p \in Procs : pc[p] = "idle"

(* res && typeof res.isFavorite === 'boolean' on the JSON body of a response *)
HasBooleanIsFavorite(res) ==
    /\ "isFavorite" \in DOMAIN res
    /\ res.isFavorite \in BOOLEAN

(* onToggleFavorite: apiService.toggleFavorite(restaurant._id).subscribe *)
OnToggleFavorite(rid) ==
    /\ listPage.call = "none"
    /\ started < MaxRequests
    /\ listPage' = [listPage EXCEPT !.call = "toggle", !.restaurantId = rid,
                            !.ticket = started + 1]
    /\ UNCHANGED <<restaurants, bookings, reviews, favorites, bookingCache,
                   restaurantCache, now, pc, req, resp, acked, started>>

(* the POST /api/favorites/:restaurantId of the page reaches the server *)
PostToggleFavorite(p) ==
    /\ listPage.call = "toggle"
    /\ listPage.ticket = started + 1
    /\ ToggleFavoriteFindRestaurant(p, PageCustomer, listPage.restaurantId)

(* next: (res) => { if (res && typeof res.isFavorite === 'boolean')
   restaurant.isFavorite = res.isFavorite }; error: () => {} *)
OnToggleFavoriteNext ==
    /\ PageAnswered("toggle")
    /\ listPage' = [listPage EXCEPT
                  !.call = "none",
                  !.isFavorite[listPage.restaurantId] =
                      IF resp.status \in {200, 201} /\ HasBooleanIsFavorite(resp.body)
                      THEN resp.body.isFavorite
                      ELSE @]
    /\ UNCHANGED <<restaurants, bookings, reviews, favorites, bookingCache,
                   restaurantCache, now, pc, req, resp, acked, started>>

(* loadRestaurants: apiService.checkFavoriteStatus(r._id) for a listed
   restaurant *)
LoadFavoriteStatus(rid) ==
    /\ listPage.call = "none"
    /\ started < MaxRequests
    /\ listPage' = [listPage EXCEPT !.call = "status", !.restaurantId = rid,
                            !.ticket = started + 1]
    /\ UNCHANGED <<restaurants, bookings, reviews, favorites, bookingCache,
                   restaurantCache, now, pc, req, resp, acked, started>>

(* the GET /api/favorites/:restaurantId/status of the page reaches the server *)
GetFavoriteStatus(p) ==
    /\ listPage.call = "status"
    /\ listPage.ticket = started + 1
    /\ CheckFavoriteStatus(p, PageCustomer, listPage.restaurantId)

(* .then(res => res && typeof res.isFavorite === 'boolean' ? res.isFavorite
   : false), .catch(() => false); isFavorite: statusMap[r._id] *)
LoadFavoriteStatusThen ==
    /\ PageAnswered("status")
    /\ listPage' = [listPage EXCEPT
                  !.call = "none",
                  !.isFavorite[listPage.restaurantId] =
                      IF resp.status = 200 /\ HasBooleanIsFavorite(resp.body)
                      THEN resp.body.isFavorite
                      ELSE FALSE]
    /\ UNCHANGED <<restaurants, bookings, reviews, favorites, bookingCache,
                   restaurantCache, now, pc, req, resp, acked, started>>

(* ---- createRestaurant ---- *)
(* validateCoordinates(latitude, longitude): numbers of a JSON body *)
validateCoordinates(latitude, longitude) ==
    /\ latitude >= -90 /\ latitude <= 90
    /\ longitude >= -180 /\ longitude <= 180

(* new Restaurant({...otherData, location, geometry, ownerId: req.user.id}):
   isActive and menuItems take the schema's defaults *)
NewRestaurant(ownerId, body) ==
    [ownerId |-> ownerId, isActive |-> TRUE, capacity |-> body.capacity,
     openingHours |-> body.openingHours, name |-> body.name,
     cuisine |-> body.cuisine, priceRange |-> body.priceRange,
     geometry |-> body.latitude, menuItems |-> <<>>]

(* the checks on the coordinates of the body; a body with neither
   coordinates nor an address has no location *)
CreateRestaurantValidate(p, ownerId, body) ==
    LET r == [op |-> "createRestaurant", ownerId |-> ownerId, body |-> body]
    IN  /\ Receive(p)
        /\ IF {"latitude", "longitude"} \subseteq DOMAIN body
           THEN IF ~validateCoordinates(body.latitude, body.longitude)
                THEN Respond(p, r, 400, "Invalid latitude or longitude values")
                ELSE Suspend(p, r, "cr_save")
           ELSE Respond(p, r, 400, "Could not determine restaurant location")
        /\ UNCHANGED <<restaurants, bookings, reviews, favorites, bookingCache,
                       restaurantCache, now, acked, listPage>>

(* restaurant.save(), populate, 201 *)
CreateRestaurantSave(p) ==
    /\ pc[p] = "cr_save"
    /\ LET r == req[p]
           id == Cardinality(DOMAIN restaurants) + 1
       IN  /\ id \notin DOMAIN restaurants
           /\ restaurants' =
                 [rid \in (DOMAIN restaurants) \cup {id} |->
                     IF rid = id THEN NewRestaurant(r.ownerId, r.body)
                     ELSE restaurants[rid]]
           /\ Respond(p, r, 201, [id |-> id, doc |-> restaurants'[id]])
    /\ UNCHANGED <<bookings, reviews, favorites, bookingCache,
                   restaurantCache, now, acked, started, listPage>>

(* ---- getMyRestaurants ---- *)
Reverse(list) == [k \in DOMAIN list |-> list[Len(list) + 1 - k]]

(* Restaurant.find({ownerId, isActive: true}).sort({createdAt: -1}); res.json *)
GetMyRestaurants(p, ownerId) ==
    LET r == [op |-> "getMyRestaurants", ownerId |-> ownerId]
        found == Reverse(Find(restaurants, [ownerId |-> ownerId, isActive |-> TRUE],
                              "", 0, Cardinality(DOMAIN restaurants)))
    IN  /\ Receive(p)
        /\ Respond(p, r, 200, [ownerId |-> ownerId, restaurants |-> found,
                               total |-> Len(found)])
        /\ UNCHANGED <<restaurants, bookings, reviews, favorites, bookingCache,
                       restaurantCache, now, acked, listPage>>

(* ---- createMenuItem, updateMenuItem, deleteMenuItem ---- *)
(* restaurant.menuItems.findIndex(item => item._id == itemId): 0 for -1 *)
FindIndex(menuItems, itemId) ==
    IF \E k \in DOMAIN menuItems : menuItems[k].id = itemId
    THEN CHOOSE k \in DOMAIN menuItems :
            /\ menuItems[k].id = itemId
            /\ \A j \in DOMAIN menuItems : menuItems[j].id = itemId => k <= j
    ELSE 0

(* Restaurant.findById, the ownership check and, for an item operation, the
   lookup of the item in the document loaded; `menuItems` is the array the
   handler goes on with *)
MenuItemChecks(p, op, ownerId, rid, itemId, name, label) ==
    LET r == [op |-> op, ownerId |-> ownerId, restaurantId |-> rid,
              itemId |-> itemId, name |-> name, n |-> started + 1,
              menuItems |-> <<>>]
    IN  IF rid \notin DOMAIN restaurants
        THEN Respond(p, r, 404, Refusal(r, "Restaurant not found"))
        ELSE IF ~IsOwner(restaurants[rid], ownerId)
        THEN Respond(p, r, 403, Refusal(r, "You don't have permission"))
        ELSE IF op # "createMenuItem" /\ FindIndex(restaurants[rid].menuItems, itemId) = 0
        THEN Respond(p, r, 404, Refusal(r, "Menu item not found"))
        ELSE Suspend(p, [r EXCEPT !.menuItems = restaurants[rid].menuItems], label)

(* restaurant.save() of a handler that changed menuItems only: the other
   fields of the stored document stay as they are *)
SaveMenuItems(p, status, menuItems) ==
    LET r == req[p]
    IN  /\ restaurants' =
              IF r.restaurantId \in DOMAIN restaurants
              THEN [restaurants EXCEPT ![r.restaurantId].menuItems = menuItems]
              ELSE restaurants
        /\ Respond(p, r, status, [restaurantId |-> r.restaurantId,
                                  menuItems |-> menuItems])

CreateMenuItemFind(p, ownerId, rid, name) ==
    /\ Receive(p)
    /\ MenuItemChecks(p, "createMenuItem", ownerId, rid, 0, name, "cm_save")
    /\ UNCHANGED <<restaurants, bookings, reviews, favorites, bookingCache,
                   restaurantCache, now, acked, listPage>>

(* restaurant.menuItems.push(newMenuItem); restaurant.save(); 201 *)
CreateMenuItemSave(p) ==
    /\ pc[p] = "cm_save"
    /\ SaveMenuItems(p, 201, Append(req[p].menuItems,
                                    [id |-> req[p].n, name |-> req[p].name]))
    /\ UNCHANGED <<bookings, reviews, favorites, bookingCache,
                   restaurantCache, now, acked, started, listPage>>

UpdateMenuItemFind(p, ownerId, rid, itemId, name) ==
    /\ Receive(p)
    /\ MenuItemChecks(p, "updateMenuItem", ownerId, rid, itemId, name, "um_save")
    /\ UNCHANGED <<restaurants, bookings, reviews, favorites, bookingCache,
                   restaurantCache, now, acked, listPage>>

(* restaurant.menuItems[menuItemIndex] = updatedItem; restaurant.save() *)
UpdateMenuItemSave(p) ==
    /\ pc[p] = "um_save"
    /\ SaveMenuItems(p, 200,
          [req[p].menuItems EXCEPT
              ![FindIndex(req[p].menuItems, req[p].itemId)].name = req[p].name])
    /\ UNCHANGED <<bookings, reviews, favorites, bookingCache,
                   restaurantCache, now, acked, started, listPage>>

DeleteMenuItemFind(p, ownerId, rid, itemId) ==
    /\ Receive(p)
    /\ MenuItemChecks(p, "deleteMenuItem", ownerId, rid, itemId, "", "dm_save")
    /\ UNCHANGED <<restaurants, bookings, reviews, favorites, bookingCache,
                   restaurantCache, now, acked, listPage>>

(* restaurant.menuItems = restaurant.menuItems.filter(...); restaurant.save() *)
DeleteMenuItemSave(p) ==
    /\ pc[p] = "dm_save"
    /\ SaveMenuItems(p, 200,
          SelectSeq(req[p].menuItems, LAMBDA item : item.id # req[p].itemId))
    /\ UNCHANGED <<bookings, reviews, favorites, bookingCache,
                   restaurantCache, now, acked, started, listPage>>

(* an entry of the restaurant cache reaches its time-to-live *)
RestaurantCacheExpire ==
    /\ \E key \in DOMAIN restaurantCache :
          restaurantCache' = cacheDel(restaurantCache, key)
    /\ UNCHANGED <<restaurants, bookings, reviews, favorites,
                   bookingCache, now, pc, req, resp, acked, started, listPage>>

(* ==================== booking specification ============================ *)
SeedBookings ==
    {<<>>} \cup {<<BookingDoc(1, 1, 1, 0, 1, s)>> : s \in {"pending", "completed"}}

NoResp == [op |-> "none", status |-> 0, body |-> ""]

NoAcks == [created |-> {}, cancelled |-> {}, deleted |-> {}, reactivated |-> {},
           emailFailed |-> {}]

InitBooking ==
    /\ restaurants \in {[rid \in RestaurantIds |->
                            RestaurantDoc(rid, IF rid = 1 THEN h ELSE AlwaysOpen)] :
                          h \in HoursTables}
    /\ bookings \in SeedBookings
    /\ reviews = {}
    /\ favorites = {}
    /\ bookingCache = <<>>
    /\ restaurantCache = <<>>
    /\ now = DateTime(1, 0)
    /\ pc = [p \in Procs |-> "idle"]
    /\ req = [p \in Procs |-> NoReq]
    /\ resp = NoResp
    /\ acked = NoAcks
    /\ started = 0
    /\ listPage = NoPage

(* the request bodies tried: every customer and guest count at the slot
   (restaurant 1, date 1, time 0), and one guest of customer 1 at each slot
   that differs from it in one coordinate *)
BookingBodies ==
    {b \in [customerId : Users, restaurantId : RestaurantIds, date : Dates,
            time : Times, guests : GuestCounts] :
        \/ b.restaurantId = 1 /\ b.date = 1 /\ b.time = 0
        \/ /\ b.customerId = 1 /\ b.guests = 1
           /\ Cardinality({x \in {<<"r", b.restaurantId # 1>>, <<"d", b.date # 1>>,
                                  <<"t", b.time # 0>>} : x[2]}) = 1}

BookingIds == 1..(MaxRequests + 1)

AvailabilityQueries ==
    {q \in RestaurantIds \X Dates : q[1] = 1 \/ q[2] = 1}

HoursUpdates == {[openingHours |-> h] : h \in HoursTables}

NextBooking ==
    \/ \E p \in Procs, b \in BookingBodies : CreateBookingFindRestaurant(p, b)
    \/ \E p \in Procs : CreateBookingCheckCapacity(p)
    \/ \E p \in Procs : CreateBookingSave(p)
    \/ \E p \in Procs : CreateBookingSaveFails(p)
    \/ \E p \in Procs : CreateBookingRespond(p)
    \/ \E p \in Procs, c \in Users, id \in BookingIds : CancelBookingFind(p, c, id)
    \/ \E p \in Procs : CancelBookingSave(p)
    \/ \E p \in Procs : CancelBookingRespond(p)
    \/ \E p \in Procs, q \in AvailabilityQueries : GetAvailabilityStart(p, q[1], q[2])
    \/ \E p \in Procs : GetAvailabilityFindRestaurant(p)
    \/ \E p \in Procs : GetAvailabilityFindBookings(p)
    \/ \E p \in Procs : GetAvailabilityRespond(p)
    \/ \E p \in Procs, o \in OwnerIds, u \in HoursUpdates :
          UpdateRestaurantFind(p, o, 1, u)
    \/ \E p \in Procs : UpdateRestaurantUpdate(p)
    \/ BookingCacheExpire
    \/ Tick

SpecBooking == InitBooking /\ [][NextBooking]_vars


(* the writes of the booking controller alone, with the mail service able
   to fail.  SpecBooking leaves CreateBookingEmailFails out: it differs from
   CreateBookingRespond in the history only. *)
NextBookingWrites ==
    \/ \E p \in Procs, b \in BookingBodies : CreateBookingFindRestaurant(p, b)
    \/ \E p \in Procs : CreateBookingCheckCapacity(p)
    \/ \E p \in Procs : CreateBookingSave(p)
    \/ \E p \in Procs : CreateBookingSaveFails(p)
    \/ \E p \in Procs : CreateBookingRespond(p)
    \/ \E p \in Procs : CreateBookingEmailFails(p)
    \/ \E p \in Procs, c \in Users, id \in BookingIds : CancelBookingFind(p, c, id)
    \/ \E p \in Procs : CancelBookingSave(p)
    \/ \E p \in Procs : CancelBookingRespond(p)
    \/ Tick

SpecBookingWrites == InitBooking /\ [][NextBookingWrites]_vars


(* the customers' own lists next to the writes that change them *)
UserBookingBodies ==
    {b \in BookingBodies : b.restaurantId = 1 /\ b.date = 1 /\ b.time = 0 /\ b.guests = 1}

UserBookingQueries ==
    { <<>>, [status |-> "confirmed"], [dateFrom |-> 1, dateTo |-> 1] }

NextUserBookings ==
    \/ \E p \in Procs, b \in UserBookingBodies : CreateBookingFindRestaurant(p, b)
    \/ \E p \in Procs : CreateBookingCheckCapacity(p)
    \/ \E p \in Procs : CreateBookingSave(p)
    \/ \E p \in Procs : CreateBookingRespond(p)
    \/ \E p \in Procs, c \in Users, id \in BookingIds : CancelBookingFind(p, c, id)
    \/ \E p \in Procs : CancelBookingSave(p)
    \/ \E p \in Procs : CancelBookingRespond(p)
    \/ \E p \in Procs, c \in Users, q \in UserBookingQueries :
          GetUserBookingsStart(p, c, q)
    \/ \E p \in Procs : GetUserBookingsFind(p)
    \/ \E p \in Procs : GetUserBookingsRespond(p)
    \/ BookingCacheExpire
    \/ Tick

SpecUserBookings == InitBooking /\ [][NextUserBookings]_vars


(* =================== restaurant specification ========================== *)
InitRestaurant ==
    /\ restaurants = [rid \in RestaurantIds |-> RestaurantDoc(rid, AlwaysOpen)]
    /\ bookings = <<BookingDoc(1, 1, 1, 0, 1, "confirmed"),
                    BookingDoc(1, NumRestaurants, 1, 0, 1, "completed")>>
    /\ reviews = {[customerId |-> 1, restaurantId |-> rid, rating |-> 5] :
                    rid \in RestaurantIds}
    /\ favorites = {[id |-> 0, userId |-> 1, restaurantId |-> 1]}
    /\ bookingCache = <<>>
    /\ restaurantCache = <<>>
    /\ now = DateTime(1, 0)
    /\ pc = [p \in Procs |-> "idle"]
    /\ req = [p \in Procs |-> NoReq]
    /\ resp = NoResp
    /\ acked = NoAcks
    /\ started = 0
    /\ listPage = NoPage

(* the default browse, its first page of one, a cuisine filter, a coordinate
   search *)
ListQueries ==
    { <<>>,
      [page |-> 1, limit |-> 1],
      [cuisine |-> "Italian"],
      [latitude |-> <<"0">>, longitude |-> <<"0">>, radius |-> <<"1">>],
      [latitude |-> <<"0">>, longitude |-> <<"0">>, page |-> 2, limit |-> 1],
      [latitude |-> <<"x">>, longitude |-> <<"0">>] }

NearbyQueries ==
    { [latitude |-> <<"0">>, longitude |-> <<"0">>],
      [latitude |-> <<"2">>, longitude |-> <<"0">>],
      [latitude |-> <<"0">>, longitude |-> <<"0">>, radius |-> <<"1">>],
      [latitude |-> <<"0">>, longitude |-> <<"0">>, radius |-> <<"1">>,
       cuisine |-> "Italian"],
      [latitude |-> <<"9", "1">>, longitude |-> <<"0">>],
      [latitude |-> <<"0">>, longitude |-> <<"0">>, radius |-> <<"0">>],
      [longitude |-> <<"0">>] }

RestaurantUpdates ==
    { [name |-> 0], [isActive |-> TRUE], [ownerId |-> NumUsers + 1] }

NextRestaurant ==
    \/ \E p \in Procs, q \in ListQueries : GetRestaurantsStart(p, q)
    \/ \E p \in Procs : GetRestaurantsFind(p)
    \/ \E p \in Procs : GetRestaurantsCount(p)
    \/ \E p \in Procs : GetRestaurantsRespond(p)
    \/ \E p \in Procs, q \in NearbyQueries : GetNearbyRestaurantsAggregate(p, q)
    \/ \E p \in Procs : GetNearbyRestaurantsCount(p)
    \/ \E p \in Procs : GetNearbyRestaurantsGeoFails(p)
    \/ \E p \in Procs : GetNearbyRestaurantsFallbackFind(p)
    \/ \E p \in Procs : GetNearbyRestaurantsFallbackCount(p)
    \/ \E p \in Procs, id \in RestaurantIds \cup {NumRestaurants + 1} :
          GetRestaurantByIdStart(p, id)
    \/ \E p \in Procs : GetRestaurantByIdFind(p)
    \/ \E p \in Procs : GetRestaurantByIdRespond(p)
    \/ \E p \in Procs, o \in OwnerIds, rid \in RestaurantIds, u \in RestaurantUpdates :
          UpdateRestaurantFind(p, o, rid, u)
    \/ \E p \in Procs : UpdateRestaurantUpdate(p)
    \/ \E p \in Procs, o \in OwnerIds, rid \in RestaurantIds :
          DeleteRestaurantFind(p, o, rid)
    \/ \E p \in Procs : DeleteRestaurantSave(p)
    \/ RestaurantCacheExpire

SpecRestaurant == InitRestaurant /\ [][NextRestaurant]_vars

(* ===================== properties: bookings ============================ *)

(* the bookings of a slot that hold seats *)
SlotBookings(docs, rid, date, time) ==
    {i \in DOMAIN docs : /\ docs[i].restaurantId = rid
                         /\ docs[i].date = date
                         /\ docs[i].time = time
                         /\ docs[i].status \in {"confirmed", "pending"}}

RECURSIVE SumGuests(_, _)
SumGuests(docs, S) ==
    IF S = {} THEN 0
    ELSE LET i == CHOOSE x \in S : TRUE
         IN  docs[i].guests + SumGuests(docs, S \ {i})

Remaining(docs, rid, date, time) ==
    restaurants[rid].capacity - SumGuests(docs, SlotBookings(docs, rid, date, time))

ClosedOn(rid, date) ==
    LET h == restaurants[rid].openingHours[getDayOfWeek(date)]
    IN  ~h.present \/ h.open = h.close

(* a getAvailability request is answered from the cache as it arrives *)
AvailabilityHit ==
    /\ started' = started + 1
    /\ pc' = pc
    /\ resp'.op = "getAvailability"

(* a getAvailability request answers with what it computed from the store *)
AvailabilityComputed(p) ==
    /\ pc[p] = "ga_respond"
    /\ pc'[p] = "idle"

SlotTimes(body) == {body.availableSlots[k].time : k \in DOMAIN body.availableSlots}

(* C1: for every restaurant, date and time the guests of the confirmed and
   pending bookings never exceed the restaurant's capacity. *)
C1_CapacityNeverExceeded ==
    \A rid \in RestaurantIds, d \in Dates, t \in Times :
        Remaining(bookings, rid, d, t) >= 0

(* C2: two concurrent createBooking requests for one slot, each fitting the
   remaining capacity alone but not together, do not both succeed.  A handler
   at cb_email has committed its booking and can only answer 201. *)
C2_ExactlyOneSucceeds ==
    \A p, q \in Procs :
        (/\ p # q
         /\ pc[p] = "cb_email" /\ pc[q] = "cb_email"
         /\ req[p].restaurantId = req[q].restaurantId
         /\ req[p].date = req[q].date
         /\ req[p].time = req[q].time)
        => LET others == SlotBookings(bookings, req[p].restaurantId, req[p].date,
                                      req[p].time) \ {req[p].bookingId, req[q].bookingId}
               remaining == restaurants[req[p].restaurantId].capacity
                              - SumGuests(bookings, others)
           IN  ~(/\ req[p].guests <= remaining
                 /\ req[q].guests <= remaining
                 /\ req[p].guests + req[q].guests > remaining)

(* C3: a createBooking request that reaches the capacity check with more
   guests than the slot has left answers 409 and inserts no booking. *)
C3_OverCapacityConflicts ==
    [][\A p \in Procs :
          (/\ pc[p] = "cb_aggregate"
           /\ pc'[p] # "cb_aggregate"
           /\ req[p].guests >
                Remaining(bookings, req[p].restaurantId, req[p].date, req[p].time))
          => /\ resp'.op = "createBooking"
             /\ resp'.status = 409
             /\ pc'[p] = "idle"
             /\ bookings' = bookings]_vars

(* a createBooking request was refused with 409 at a slot whose seats are
   partly taken, and the collection holds no booking beyond the taken ones *)
C3_Witness ==
    /\ resp.op = "createBooking"
    /\ resp.status = 409
    /\ resp.body[1] = "Only seats available"
    /\ \E rid \in RestaurantIds, d \in Dates, t \in Times :
          /\ Remaining(bookings, rid, d, t) = resp.body[2]
          /\ Remaining(bookings, rid, d, t) < restaurants[rid].capacity

(* C4: a response computed from the store reports, for every slot,
   availableCapacity = capacity minus the guests of the restaurant's confirmed
   or pending bookings at that date and time, and available exactly when
   availableCapacity is positive. *)
C4_AvailabilityFormula ==
    [][\A p \in Procs :
          AvailabilityComputed(p)
          => /\ resp'.op = "getAvailability"
             /\ resp'.status = 200
             /\ SlotTimes(resp'.body) =
                  {t \in Times : /\ req[p].openingHours.open <= t
                                 /\ t < req[p].openingHours.close}
             /\ \A k \in DOMAIN resp'.body.availableSlots :
                   LET s == resp'.body.availableSlots[k]
                   IN  /\ s.availableCapacity =
                            Remaining(req[p].store, req[p].restaurantId,
                                      req[p].date, s.time)
                       /\ s.available = (s.availableCapacity > 0)]_vars

(* the second request of the run is the first getAvailability, so it was
   computed from the store; it lists a slot partly taken, at which a
   cancelled or completed booking exists too *)
C4_Witness ==
    /\ started = 2
    /\ \A p \in Procs : pc[p] = "idle"
    /\ acked.created # {}
    /\ resp.op = "getAvailability"
    /\ resp.status = 200
    /\ \E k \in DOMAIN resp.body.availableSlots :
          LET s == resp.body.availableSlots[k]
          IN  /\ s.availableCapacity < s.totalCapacity
              /\ s.availableCapacity > 0
              /\ \E i \in DOMAIN bookings :
                    /\ bookings[i].restaurantId = resp.body.restaurantId
                    /\ bookings[i].date = resp.body.date
                    /\ bookings[i].time = s.time
                    /\ bookings[i].status \in {"cancelled", "completed"}

(* C5: for a restaurant closed on the weekday of the requested date, every
   getAvailability response has an empty availableSlots list. *)
C5_ClosedDayHasNoSlots ==
    [][/\ AvailabilityHit
          => (ClosedOn(resp'.body.restaurantId, resp'.body.date)
              => resp'.body.availableSlots = <<>>)
       /\ \A p \in Procs :
            (/\ pc[p] \in {"ga_restaurant", "ga_respond"}
             /\ pc'[p] = "idle"
             /\ resp'.status = 200
             /\ req[p].closedAtStart
             /\ ClosedOn(req[p].restaurantId, req[p].date))
            => resp'.body.availableSlots = <<>>]_vars

(* C6: a getAvailability request that arrives after cancelBooking has
   answered does not count the cancelled booking's guests, whether it is
   served from the cache or computed. *)
C6_CancelledNotCounted ==
    [][/\ AvailabilityHit => resp'.body.counted \cap acked.cancelled = {}
       /\ \A p \in Procs :
            AvailabilityComputed(p)
            => resp'.body.counted \cap req[p].ackedAtStart.cancelled = {}]_vars

(* a booking created before the request arrived and still confirmed, at a
   slot the response lists *)
MustCount(created, body) ==
    {b \in created : /\ bookings[b].restaurantId = body.restaurantId
                     /\ bookings[b].date = body.date
                     /\ bookings[b].status = "confirmed"
                     /\ bookings[b].time \in SlotTimes(body)}

(* C7: a getAvailability request that arrives after createBooking has
   answered 201 counts the new booking's guests in its slot. *)
C7_CreatedIsCounted ==
    [][/\ AvailabilityHit
          => MustCount(acked.created, resp'.body) \subseteq resp'.body.counted
       /\ \A p \in Procs :
            AvailabilityComputed(p)
            => MustCount(req[p].ackedAtStart.created, resp'.body)
                 \subseteq resp'.body.counted]_vars


(* ===================== properties: restaurants ========================== *)
(* a step that sends the response of request `op` from a cache hit *)
AnsweredFromCache(op) ==
    /\ started' = started + 1
    /\ pc' = pc
    /\ resp'.op = op

(* a step in which handler p sends the response of request `op` after store reads *)
AnsweredFromStore(p, op) ==
    /\ pc[p] # "idle"
    /\ pc'[p] = "idle"
    /\ req[p].op = op
    /\ resp'.op = op

(* restaurants whose deletion was acknowledged, and that no update has
   switched back on since *)
Deleted(acks) == acks.deleted \ acked'.reactivated

Listed(body) == {body.restaurants[k].id : k \in DOMAIN body.restaurants}

ListOps == {"getRestaurants", "getNearbyRestaurants"}

(* C8: once deleteRestaurant has answered with success for a restaurant, no
   getRestaurants and no getNearbyRestaurants response to a request received
   afterwards contains that restaurant. *)
C8_DeletedNeverListed ==
    [][ /\ \A op \in ListOps :
            (AnsweredFromCache(op) /\ resp'.status = 200)
               => Listed(resp'.body) \cap Deleted(acked) = {}
        /\ \A p \in Procs, op \in ListOps :
            (AnsweredFromStore(p, op) /\ resp'.status = 200)
               => Listed(resp'.body) \cap Deleted(req[p].ackedAtStart) = {}
      ]_vars

(* C9: once deleteRestaurant has answered with success for a restaurant, every
   getRestaurantById request for its id received afterwards responds 404. *)
C9_InactiveNotFound ==
    [][ /\ \A id \in Deleted(acked) :
            (AnsweredFromCache("getRestaurantById") /\ resp'.body.id = id)
               => resp'.status = 404
        /\ \A p \in Procs :
            (/\ AnsweredFromStore(p, "getRestaurantById")
             /\ req[p].restaurantId \in Deleted(req[p].ackedAtStart))
               => resp'.status = 404
      ]_vars

(* C10: the step in which deleteRestaurant writes changes only the isActive
   flag of its restaurant, to false: every restaurant, booking, review and
   favorite record is still there, and every booking still refers to a
   restaurant of the collection. *)
C10_DeleteOnlyClearsIsActive ==
    [][ \A p \in Procs :
          (pc[p] = "dr_save" /\ pc'[p] = "idle") =>
             /\ DOMAIN restaurants' = DOMAIN restaurants
             /\ \A id \in DOMAIN restaurants :
                   restaurants'[id] =
                      IF id = req[p].restaurantId
                      THEN [restaurants[id] EXCEPT !.isActive = FALSE]
                      ELSE restaurants[id]
             /\ bookings' = bookings
             /\ reviews' = reviews
             /\ favorites' = favorites
             /\ \A k \in DOMAIN bookings' :
                   bookings'[k].restaurantId \in DOMAIN restaurants'
      ]_vars

(* a deletion has been answered with success for a restaurant that has
   bookings, reviews and a favorite, and that was active until then *)
C10_Witness ==
    /\ resp.op = "deleteRestaurant"
    /\ resp.status = 200
    /\ \E rid \in acked.deleted :
          /\ rid \in DOMAIN restaurants
          /\ ~restaurants[rid].isActive
          /\ restaurants[rid].name = RestaurantDoc(rid, AlwaysOpen).name
          /\ \E k \in DOMAIN bookings : bookings[k].restaurantId = rid
          /\ \E v \in reviews : v.restaurantId = rid
          /\ \E f \in favorites : f.restaurantId = rid

(* ===================== properties: nearby search ======================= *)
(* the distance in metres between a listed restaurant and the point *)
TrueDistance(e, query) == Abs(e.doc.geometry - NearbyLat(query).value) * 1000

(* what C11 asks of a response body for a query *)
NearbyListingOk(body, query) ==
    LET list == body.restaurants
    IN  /\ \A k \in DOMAIN list :
              /\ list[k].doc.isActive
              /\ TrueDistance(list[k], query) <= NearbyRadiusKm(query).value * 1000
              /\ "cuisine" \in DOMAIN query => list[k].doc.cuisine = query.cuisine
              /\ "priceRange" \in DOMAIN query => list[k].doc.priceRange = query.priceRange
        /\ \A j, k \in DOMAIN list :
              j < k => TrueDistance(list[j], query) <= TrueDistance(list[k], query)

(* handler p sends a 200 getNearbyRestaurants response from position `at` *)
NearbyAnswered(p, at) ==
    /\ pc[p] = at
    /\ pc'[p] = "idle"
    /\ resp'.op = "getNearbyRestaurants"
    /\ resp'.status = 200

(* C11 as stated: every 200 getNearbyRestaurants response lists only active
   restaurants within the radius that match the filters, nearest first. *)
C11_EveryNearbyResponseBounded ==
    [][\A p \in Procs :
          (NearbyAnswered(p, "gn_count") \/ NearbyAnswered(p, "gn_fallback_count"))
          => NearbyListingOk(resp'.body, req[p].query)]_vars

(* C11, amended: every 200 getNearbyRestaurants response computed by the
   geospatial query lists only active restaurants within the radius that
   match the filters, nearest first; the degraded listing served when the
   geospatial query fails is not bounded by distance. *)
C11_GeoResponseBounded ==
    [][\A p \in Procs :
          NearbyAnswered(p, "gn_count")
          => NearbyListingOk(resp'.body, req[p].query)]_vars

(* a geospatial answer that left out a restaurant beyond the radius, and one
   that lists two restaurants against their insertion order *)
C11_Witness ==
    /\ resp.op = "getNearbyRestaurants"
    /\ resp.status = 200
    /\ resp.body.restaurants # <<>>
    /\ \A k \in DOMAIN resp.body.restaurants : resp.body.restaurants[k].distance # 1000
    /\ \/ /\ Len(resp.body.restaurants) = 1
          /\ resp.body.total = 1
          /\ \A rid \in RestaurantIds : restaurants[rid].isActive
       \/ /\ Len(resp.body.restaurants) > 1
          /\ resp.body.restaurants[1].id > resp.body.restaurants[2].id

(* the active restaurants matching the cuisine/priceRange filters of a query *)
ActiveMatching(query) ==
    {rid \in DOMAIN restaurants :
        /\ restaurants[rid].isActive
        /\ "cuisine" \in DOMAIN query => restaurants[rid].cuisine = query.cuisine
        /\ "priceRange" \in DOMAIN query => restaurants[rid].priceRange = query.priceRange}

(* the ids of a page of the plain listing: the members of S in the order of
   the collection, without the first `skip`, at most `limit` of them *)
PlainPage(S, skip, limit) ==
    LET rank(x) == Cardinality({y \in S : y < x})
        n == IF Cardinality(S) - skip < limit THEN Cardinality(S) - skip ELSE limit
    IN  [k \in 1..(IF n < 0 THEN 0 ELSE n) |-> CHOOSE x \in S : rank(x) = skip + k - 1]

(* C12: once the geospatial query has failed, the handler goes on to the plain
   listing (never back to the geospatial query, never to an error): its page is
   the plain page of the active restaurants matching the filters, each with
   distance 1000, and it responds 200 with total = the number of all active
   restaurants matching the filters. *)
C12_FallbackListing ==
    [][\A p \in Procs :
          LET query == req[p].query
              skip == (Param(query, "page", 1) - 1) * Param(query, "limit", 10)
              page == PlainPage(ActiveMatching(query), skip, Param(query, "limit", 10))
          IN  /\ (pc[p] = "gn_fallback" /\ pc'[p] # "gn_fallback")
                 => /\ pc'[p] = "gn_fallback_count"
                    /\ Len(req'[p].restaurants) = Len(page)
                    /\ \A k \in DOMAIN page :
                          /\ req'[p].restaurants[k].id = page[k]
                          /\ req'[p].restaurants[k].doc = restaurants[page[k]]
                          /\ req'[p].restaurants[k].distance = 1000
              /\ (pc[p] = "gn_fallback_count" /\ pc'[p] # "gn_fallback_count")
                 => /\ pc'[p] = "idle"
                    /\ resp'.op = "getNearbyRestaurants"
                    /\ resp'.status = 200
                    /\ resp'.body.restaurants = req[p].restaurants
                    /\ resp'.body.total = Cardinality(ActiveMatching(query))
      ]_vars

(* a degraded answer after a deletion: one restaurant is left in the page
   and in the total, with the placeholder distance *)
C12_Witness ==
    /\ resp.op = "getNearbyRestaurants"
    /\ resp.status = 200
    /\ acked.deleted # {}
    /\ resp.body.total = 1
    /\ Len(resp.body.restaurants) = 1
    /\ resp.body.restaurants[1].distance = 1000
    /\ resp.body.restaurants[1].id \notin acked.deleted

(* ===================== properties: booking writes ====================== *)
(* C13: whatever becomes of the confirmation email, the step that follows it
   responds 201, ends the request and leaves the committed booking stored
   with status confirmed. *)
C13_EmailFailureIsSwallowed ==
    [][\A p \in Procs :
          (pc[p] = "cb_email" /\ pc'[p] # "cb_email")
          => /\ pc'[p] = "idle"
             /\ resp'.op = "createBooking"
             /\ resp'.status = 201
             /\ bookings' = bookings
             /\ req[p].bookingId \in DOMAIN bookings'
             /\ bookings'[req[p].bookingId].customerId = req[p].customerId
             /\ resp'.body.id = req[p].bookingId]_vars

(* a request whose email failed was just answered 201, and its booking is
   stored and confirmed *)
C13_Witness ==
    /\ resp.op = "createBooking"
    /\ resp.status = 201
    /\ resp.body.id \in acked.emailFailed
    /\ resp.body.id \in DOMAIN bookings
    /\ bookings[resp.body.id].status = "confirmed"

(* C14: a createBooking whose save or commit fails stores no booking, ends
   the request and responds with an error status, never 201. *)
C14_FailedTransactionStoresNothing ==
    [][\A p \in Procs :
          (pc[p] = "cb_save" /\ pc'[p] = "idle")
          => /\ bookings' = bookings
             /\ bookingCache' = bookingCache
             /\ acked' = acked
             /\ resp'.op = "createBooking"
             /\ resp'.status >= 400
             /\ resp'.status # 201]_vars

(* a createBooking was answered 500 and the collection holds no more than
   the bookings of the requests answered 201 and the seeded ones *)
C14_Witness ==
    /\ resp.op = "createBooking"
    /\ resp.status = 500
    /\ \A p \in Procs : pc[p] = "idle"
    /\ \E seed \in SeedBookings : Len(bookings) = Len(seed) + Cardinality(acked.created)

(* a request is answered as it arrives, without a store operation *)
AnsweredAtOnce(op) ==
    /\ started' = started + 1
    /\ pc' = pc
    /\ resp'.op = op

(* C15: a cancelBooking request is let through to the write only by the
   booking's own customer, for a booking that is not cancelled and not in the
   past; any other request is answered with an error at once and changes
   neither the bookings nor the caches; and a booking's status becomes
   cancelled only in the write of such a request. *)
C15_CancelOnlyWhenAllowed ==
    [][/\ AnsweredAtOnce("cancelBooking")
          => /\ resp'.status \in {400, 404}
             /\ UNCHANGED <<bookings, bookingCache, restaurantCache>>
       /\ \A p \in Procs :
            (pc[p] = "idle" /\ pc'[p] = "cn_save")
            => LET id == req'[p].bookingId
               IN  /\ id \in DOMAIN bookings
                   /\ bookings[id].customerId = req'[p].customerId
                   /\ bookings[id].status # "cancelled"
                   /\ DateTime(bookings[id].date, bookings[id].time) >= now
                   /\ UNCHANGED <<bookings, bookingCache, restaurantCache>>
       /\ \A id \in DOMAIN bookings :
            bookings'[id] # bookings[id]
            => /\ bookings'[id] = [bookings[id] EXCEPT !.status = "cancelled"]
               /\ \E p \in Procs : /\ pc[p] = "cn_save"
                                   /\ req[p].bookingId = id
                                   /\ req[p].customerId = bookings[id].customerId
      ]_vars

(* a cancelBooking request was refused while a list was cached, the clock
   having passed a booking that is still not cancelled *)
C15_Witness ==
    /\ resp.op = "cancelBooking"
    /\ resp.status = 400
    /\ bookingCache # <<>>
    /\ \E id \in DOMAIN bookings :
          /\ bookings[id].status # "cancelled"
          /\ DateTime(bookings[id].date, bookings[id].time) < now
    /\ \A id \in DOMAIN bookings : bookings[id].status # "cancelled"

(* the ids a response lists *)
ListedBookings(body) == {body.bookings[k].id : k \in DOMAIN body.bookings}

(* what a getUserBookings response must show of the writes acknowledged in
   `acks`: a booking created for the customer is listed when the filters admit
   it, and a cancelled booking is not shown with another status *)
ReflectsWrites(body, acks) ==
    LET c == body.customerId
        inRange(b) ==
            /\ BookingsParam(body.query, "dateFrom") # 0
                  => bookings[b].date >= BookingsParam(body.query, "dateFrom")
            /\ BookingsParam(body.query, "dateTo") # 0
                  => bookings[b].date <= BookingsParam(body.query, "dateTo")
    IN  /\ \A b \in acks.created :
              (/\ bookings[b].customerId = c
               /\ inRange(b)
               /\ \/ BookingsParam(body.query, "status") = "all"
                  \/ /\ BookingsParam(body.query, "status") = "confirmed"
                     /\ bookings[b].status = "confirmed")
              => b \in ListedBookings(body)
        /\ \A b \in acks.cancelled :
              \A k \in DOMAIN body.bookings :
                 body.bookings[k].id = b => body.bookings[k].status = "cancelled"

(* C16: a getUserBookings request that arrives after createBooking or
   cancelBooking has succeeded for the customer shows the write, whatever its
   status, dateFrom and dateTo filters, served from the cache or computed. *)
C16_UserBookingsReflectWrites ==
    [][/\ AnsweredAtOnce("getUserBookings") => ReflectsWrites(resp'.body, acked)
       /\ \A p \in Procs :
            (pc[p] = "gu_respond" /\ pc'[p] = "idle")
            => ReflectsWrites(resp'.body, req[p].ackedAtStart)]_vars

(* =================== favorites specification =========================== *)
FavoriteCallers == Users \cup {NumUsers + 1}

NextFavorites ==
    \/ \E p \in Procs, u \in FavoriteCallers, rid \in RestaurantIds :
          ToggleFavoriteFindRestaurant(p, u, rid)
    \/ \E p \in Procs : ToggleFavoriteFindOne(p)
    \/ \E p \in Procs : ToggleFavoriteDelete(p)
    \/ \E p \in Procs : ToggleFavoriteSave(p)
    \/ \E p \in Procs, o \in OwnerIds, rid \in RestaurantIds :
          DeleteRestaurantFind(p, o, rid)
    \/ \E p \in Procs : DeleteRestaurantSave(p)

SpecFavorites == InitRestaurant /\ [][NextFavorites]_vars

(* C17: the favorites collection never holds two records of one (user,
   restaurant) pair. *)
C17_OneFavoritePerPair ==
    \A f, g \in favorites :
        (f.userId = g.userId /\ f.restaurantId = g.restaurantId) => f = g

(* two toggles of one pair interleaved: the insert of the second was
   rejected, and the pair has its one record *)
C17_Witness ==
    /\ resp.op = "toggleFavorite"
    /\ resp.status = 500
    /\ \E f \in favorites : f.id > 0

(* C18: a toggleFavorite whose insert is rejected because the pair already
   has a favorite responds 409. *)
C18_DuplicateFavoriteConflicts ==
    [][\A p \in Procs :
          (/\ pc[p] = "tf_save"
           /\ pc'[p] = "idle"
           /\ \E f \in favorites : /\ f.userId = req[p].userId
                                   /\ f.restaurantId = req[p].restaurantId)
          => resp'.status = 409]_vars

(* ================ restaurant owner specification ======================= *)
MenuItemNames == {"soup", "bread"}

(* the seeded item and one that no menu has *)
MenuItemIds == {0, MaxRequests + 1}

NextOwner ==
    \/ \E p \in Procs, o \in OwnerIds, rid \in RestaurantIds, u \in RestaurantUpdates :
          UpdateRestaurantFind(p, o, rid, u)
    \/ \E p \in Procs : UpdateRestaurantUpdate(p)
    \/ \E p \in Procs, o \in OwnerIds, rid \in RestaurantIds :
          DeleteRestaurantFind(p, o, rid)
    \/ \E p \in Procs : DeleteRestaurantSave(p)
    \/ \E p \in Procs, o \in OwnerIds, rid \in RestaurantIds, name \in MenuItemNames :
          CreateMenuItemFind(p, o, rid, name)
    \/ \E p \in Procs : CreateMenuItemSave(p)
    \/ \E p \in Procs, o \in OwnerIds, rid \in RestaurantIds, i \in MenuItemIds :
          UpdateMenuItemFind(p, o, rid, i, "bread")
    \/ \E p \in Procs : UpdateMenuItemSave(p)
    \/ \E p \in Procs, o \in OwnerIds, rid \in RestaurantIds, i \in MenuItemIds :
          DeleteMenuItemFind(p, o, rid, i)
    \/ \E p \in Procs : DeleteMenuItemSave(p)
    \/ \E p \in Procs, id \in RestaurantIds : GetRestaurantByIdStart(p, id)
    \/ \E p \in Procs : GetRestaurantByIdFind(p)
    \/ \E p \in Procs : GetRestaurantByIdRespond(p)
    \/ \E p \in Procs : GetRestaurantsStart(p, <<>>)
    \/ \E p \in Procs : GetRestaurantsFind(p)
    \/ \E p \in Procs : GetRestaurantsCount(p)
    \/ \E p \in Procs : GetRestaurantsRespond(p)
    \/ RestaurantCacheExpire

SpecOwner == InitRestaurant /\ [][NextOwner]_vars

OwnerOps == {"updateRestaurant", "deleteRestaurant", "createMenuItem",
             "updateMenuItem", "deleteMenuItem"}

OwnerWrites == {"ur_update", "dr_save", "cm_save", "um_save", "dm_save"}

(* C19: an updateRestaurant, deleteRestaurant, createMenuItem, updateMenuItem
   or deleteMenuItem request for an existing restaurant by a user who is not
   its owner is answered 403 at once and changes neither the restaurants nor
   the restaurant cache; only the owner's request goes on to the write, and
   the stored restaurants change only in the write of such a request, and
   only the restaurant it named. *)
C19_NonOwnerIsRefused ==
    [][/\ \A op \in OwnerOps :
            (/\ AnsweredAtOnce(op)
             /\ resp'.body.restaurantId \in DOMAIN restaurants
             /\ restaurants[resp'.body.restaurantId].ownerId # resp'.body.ownerId)
            => /\ resp'.status = 403
               /\ restaurants' = restaurants
               /\ restaurantCache' = restaurantCache
       /\ \A p \in Procs :
            (pc[p] = "idle" /\ pc'[p] \in OwnerWrites)
            => /\ req'[p].restaurantId \in DOMAIN restaurants
               /\ restaurants[req'[p].restaurantId].ownerId = req'[p].ownerId
               /\ restaurants' = restaurants
       /\ restaurants' # restaurants
            => \E p \in Procs :
                  /\ pc[p] \in OwnerWrites
                  /\ pc'[p] = "idle"
                  /\ \A rid \in DOMAIN restaurants :
                        rid # req[p].restaurantId
                        => /\ rid \in DOMAIN restaurants'
                           /\ restaurants'[rid] = restaurants[rid]]_vars

(* the owner of restaurant 2 was refused a menu item on restaurant 1, whose
   document is as seeded *)
C19_Witness ==
    /\ resp.op = "createMenuItem"
    /\ resp.status = 403
    /\ resp.body.restaurantId = 1
    /\ resp.body.ownerId # restaurants[1].ownerId
    /\ restaurants[1] = RestaurantDoc(1, AlwaysOpen)
    /\ \A p \in Procs : pc[p] = "idle"

(* a write of a restaurant document has passed its checks and has not yet
   reached the store *)
WriteInFlight == \E p \in Procs : pc[p] \in OwnerWrites

(* C20: once updateRestaurant or a menu item write has succeeded, a
   getRestaurantById or default getRestaurants response shows the written
   data: with no write in flight, a response served from the cache carries
   each active restaurant's document as the store holds it. *)
C20_CachedRestaurantsAreCurrent ==
    [][/\ (/\ AnsweredAtOnce("getRestaurantById")
           /\ ~WriteInFlight
           /\ resp'.body.id \in DOMAIN restaurants
           /\ restaurants[resp'.body.id].isActive)
          => resp'.body.doc = restaurants[resp'.body.id]
       /\ (AnsweredAtOnce("getRestaurants") /\ ~WriteInFlight)
          => \A k \in DOMAIN resp'.body.restaurants :
                LET e == resp'.body.restaurants[k]
                IN  (e.id \in DOMAIN restaurants /\ restaurants[e.id].isActive)
                    => e.doc = restaurants[e.id]]_vars

(* C21: a createBooking request refused for lack of capacity is told which
   case it is: with k the restaurant's capacity less the guests of the slot's
   confirmed and pending bookings, the message is the no-tables one when
   k <= 0 and names k seats when 0 < k < guests; and it is refused this way
   only when guests > k. *)
C21_CapacityMessageNamesTheCase ==
    [][\A p \in Procs :
          (pc[p] = "cb_aggregate" /\ pc'[p] = "idle")
          => LET r == req[p]
                 k == restaurants[r.restaurantId].capacity
                      - TotalGuests(bookings, r.restaurantId, r.date, r.time)
             IN  /\ resp'.status = 409
                 /\ r.guests > k
                 /\ k <= 0 => resp'.body = <<"No tables available">>
                 /\ k > 0 => resp'.body = <<"Only seats available", k>>]_vars

(* a request for more seats than the one left was told that one is left *)
C21_Witness ==
    /\ resp.op = "createBooking"
    /\ resp.status = 409
    /\ resp.body = <<"Only seats available", 1>>

(* ================= nearby search specification ========================= *)
(* well-formed searches and searches with a missing, empty, non-numeric or
   out-of-range parameter *)
NearbyTexts ==
    NearbyQueries \cup
    { [latitude |-> <<"1", "x">>, longitude |-> <<"0">>],
      [latitude |-> <<"x">>, longitude |-> <<"0">>],
      [latitude |-> <<>>, longitude |-> <<"0">>],
      [latitude |-> <<"0">>],
      [latitude |-> <<"-", "9", "1">>, longitude |-> <<"0">>],
      [latitude |-> <<"0">>, longitude |-> <<"1", "8", "1">>],
      [latitude |-> <<"0">>, longitude |-> <<"-", "x">>],
      [latitude |-> <<"0">>, longitude |-> <<"0">>, radius |-> <<"x">>],
      [latitude |-> <<"0">>, longitude |-> <<"0">>, radius |-> <<"-", "1">>] }

NextNearby ==
    \/ \E p \in Procs, q \in NearbyTexts : GetNearbyRestaurantsAggregate(p, q)
    \/ \E p \in Procs : GetNearbyRestaurantsCount(p)
    \/ \E p \in Procs : GetNearbyRestaurantsGeoFails(p)
    \/ \E p \in Procs : GetNearbyRestaurantsFallbackFind(p)
    \/ \E p \in Procs : GetNearbyRestaurantsFallbackCount(p)

SpecNearby == InitRestaurant /\ [][NextNearby]_vars

(* the text is a number: an optional sign, then digits and nothing else *)
IsNumeric(text) ==
    LET body == IF text # <<>> /\ text[1] = "-" THEN Tail(text) ELSE text
    IN  /\ body # <<>>
        /\ \A k \in DOMAIN body : DigitValue(body[k]) >= 0

(* the searches C22 lets through: latitude and longitude present and numeric,
   radius numeric, all three in range *)
WellFormedSearch(query) ==
    /\ {"latitude", "longitude"} \subseteq DOMAIN query
    /\ IsNumeric(query.latitude)
    /\ IsNumeric(query.longitude)
    /\ IsNumeric(Param(query, "radius", <<"5">>))
    /\ parseFloat(query.latitude).value \in -90..90
    /\ parseFloat(query.longitude).value \in -180..180
    /\ parseFloat(Param(query, "radius", <<"5">>)).value > 0

(* C22: a getNearbyRestaurants request is answered at its arrival only with
   400, and it goes on to the store only if latitude and longitude are
   present and numeric, radius is numeric, latitude is within [-90, 90],
   longitude within [-180, 180] and radius above 0. *)
C22_MalformedSearchIsRefused ==
    [][/\ AnsweredAtOnce("getNearbyRestaurants") => resp'.status = 400
       /\ \A p \in Procs :
            (pc[p] = "idle" /\ pc'[p] = "gn_count")
            => WellFormedSearch(req'[p].query)]_vars

(* ================ properties: coordinate search total ================== *)
(* the active restaurants within the radius of the point of a coordinate
   search that match its cuisine and priceRange filters *)
GeoMatching(query) ==
    {rid \in DOMAIN restaurants :
        /\ restaurants[rid].isActive
        /\ Abs(restaurants[rid].geometry - parseFloat(query.latitude).value) * 1000
              <= parseFloat(Param(query, "radius", <<"1", "0">>)).value * 1000
        /\ "cuisine" \in DOMAIN query => restaurants[rid].cuisine = query.cuisine
        /\ "priceRange" \in DOMAIN query
              => restaurants[rid].priceRange = query.priceRange}

(* C23: the total that a coordinate-based getRestaurants request counts is
   the number of active restaurants within the radius that match its filters,
   whatever page and limit it asks for. *)
C23_GeoTotalCountsAllMatches ==
    [][\A p \in Procs :
          (/\ pc[p] = "gr_count"
           /\ pc'[p] = "gr_respond"
           /\ IsGeoQuery(req[p].query))
          => req'[p].total = Cardinality(GeoMatching(req[p].query))]_vars

(* ================= restaurant ownership specification ================== *)
(* a body with coordinates, one with a latitude out of range, one with no
   location at all *)
CreateRestaurantBodies ==
    LET data == [name |-> 0, cuisine |-> "Italian", priceRange |-> 1,
                 capacity |-> Capacity, openingHours |-> AlwaysOpen]
    IN  { data @@ [latitude |-> 1, longitude |-> 0],
          data @@ [latitude |-> 91, longitude |-> 0],
          data }

NextOwnership ==
    \/ \E p \in Procs, o \in OwnerIds, body \in CreateRestaurantBodies :
          CreateRestaurantValidate(p, o, body)
    \/ \E p \in Procs : CreateRestaurantSave(p)
    \/ \E p \in Procs, o \in OwnerIds, rid \in RestaurantIds, u \in RestaurantUpdates :
          UpdateRestaurantFind(p, o, rid, u)
    \/ \E p \in Procs : UpdateRestaurantUpdate(p)
    \/ \E p \in Procs, o \in OwnerIds, rid \in RestaurantIds :
          DeleteRestaurantFind(p, o, rid)
    \/ \E p \in Procs : DeleteRestaurantSave(p)
    \/ \E p \in Procs, o \in OwnerIds : GetMyRestaurants(p, o)

SpecOwnership == InitRestaurant /\ [][NextOwnership]_vars

(* the active restaurants of an owner *)
ActiveOf(ownerId) ==
    {rid \in DOMAIN restaurants :
        restaurants[rid].ownerId = ownerId /\ restaurants[rid].isActive}

(* C24: every owner has at most one active restaurant, and a getMyRestaurants
   response has at most one entry. *)
C24_OneActiveRestaurantPerOwner ==
    /\ \A o \in OwnerIds : Cardinality(ActiveOf(o)) <= 1
    /\ (resp.op = "getMyRestaurants" /\ resp.status = 200)
          => Len(resp.body.restaurants) <= 1

(* ================= restaurants list page specification ================= *)
NextPage ==
    \/ \E rid \in RestaurantIds : OnToggleFavorite(rid)
    \/ \E p \in Procs : PostToggleFavorite(p)
    \/ \E p \in Procs : ToggleFavoriteFindOne(p)
    \/ \E p \in Procs : ToggleFavoriteDelete(p)
    \/ \E p \in Procs : ToggleFavoriteSave(p)
    \/ OnToggleFavoriteNext
    \/ \E rid \in RestaurantIds : LoadFavoriteStatus(rid)
    \/ \E p \in Procs : GetFavoriteStatus(p)
    \/ LoadFavoriteStatusThen

SpecPage == InitRestaurant /\ [][NextPage]_vars

(* the favorite state the server holds for a customer and a restaurant *)
ServerFavorite(userId, rid) ==
    \E f \in favorites : f.userId = userId /\ f.restaurantId = rid

(* C25: when the restaurants list page has handled the success response of a
   favorite toggle, or of a favorite status request of loadRestaurants, the
   isFavorite flag it shows for the restaurant is the favorite state the
   server holds for the customer and that restaurant. *)
C25_PageShowsServerFavorite ==
    (/\ listPage.call = "none"
     /\ listPage.ticket = started
     /\ resp.op \in {"toggleFavorite", "checkFavoriteStatus"}
     /\ resp.status \in {200, 201})
    => listPage.isFavorite[listPage.restaurantId]
          = ServerFavorite(PageCustomer, listPage.restaurantId)

(* ================= properties: booking status ========================== *)
(* C26: a booking enters the collection with status confirmed; a stored
   booking's status changes only to cancelled, and only in the save of a
   cancelBooking request for that booking; a cancelled booking stays
   cancelled; no booking leaves the collection. *)
C26_StatusOnlyMovesToCancelled ==
    [][/\ DOMAIN bookings \subseteq DOMAIN bookings'
       /\ \A id \in DOMAIN bookings' :
            IF id \notin DOMAIN bookings
            THEN bookings'[id].status = "confirmed"
            ELSE /\ bookings[id].status = "cancelled"
                    => bookings'[id].status = "cancelled"
                 /\ bookings'[id].status # bookings[id].status
                    => /\ bookings'[id].status = "cancelled"
                       /\ \E p \in Procs : /\ pc[p] = "cn_save"
                                           /\ pc'[p] = "cn_respond"
                                           /\ req[p].op = "cancelBooking"
                                           /\ req[p].bookingId = id]_vars

(* a booking made by createBooking has been cancelled by cancelBooking, and
   a later cancelBooking for it was refused *)
C26_Witness ==
    /\ \E id \in acked.created :
          /\ id \in acked.cancelled
          /\ bookings[id].status = "cancelled"
    /\ resp.op = "cancelBooking"
    /\ resp.status = 400

(* ================= properties: update frame ============================ *)
(* C27: the write of an updateRestaurant request leaves the restaurant's
   ownerId and isActive flag as they were, whatever its body holds. *)
C27_UpdateKeepsOwnerAndActive ==
    [][\A p \in Procs :
          (/\ pc[p] = "ur_update"
           /\ pc'[p] = "idle"
           /\ req[p].restaurantId \in DOMAIN restaurants)
          => LET rid == req[p].restaurantId
             IN  /\ restaurants'[rid].ownerId = restaurants[rid].ownerId
                 /\ restaurants'[rid].isActive = restaurants[rid].isActive]_vars

(* ================= restaurant statistics specification ================= *)
NextStats ==
    \/ \E p \in Procs, o \in OwnerIds, rid \in RestaurantIds :
          GetRestaurantStatsFind(p, o, rid)
    \/ \E p \in Procs, name \in StatQueries : GetRestaurantStatsCount(p, name)
    \/ \E p \in Procs : GetRestaurantStatsRespond(p)
    \/ \E p \in Procs, b \in UserBookingBodies : CreateBookingFindRestaurant(p, b)
    \/ \E p \in Procs : CreateBookingCheckCapacity(p)
    \/ \E p \in Procs : CreateBookingSave(p)
    \/ \E p \in Procs : CreateBookingRespond(p)
    \/ \E p \in Procs, c \in Users, id \in BookingIds : CancelBookingFind(p, c, id)
    \/ \E p \in Procs : CancelBookingSave(p)
    \/ \E p \in Procs : CancelBookingRespond(p)

SpecStats == InitRestaurant /\ [][NextStats]_vars

(* C28: in every getRestaurantStats response,
   todayBookings <= upcomingBookings <= totalBookings. *)
C28_StatsAreOrdered ==
    (resp.op = "getRestaurantStats" /\ resp.status = 200)
    => /\ resp.body.stats["todayBookings"] <= resp.body.stats["upcomingBookings"]
       /\ resp.body.stats["upcomingBookings"] <= resp.body.stats["totalBookings"]

(* ================= sequential toggles specification ==================== *)
(* a toggleFavorite request that arrives when no request is in flight *)
ToggleFavoriteAlone(p, userId, rid) ==
    /\ \A q \in Procs : pc[q] = "idle"
    /\ ToggleFavoriteFindRestaurant(p, userId, rid)

NextToggles ==
    \/ \E p \in Procs, u \in Users, rid \in RestaurantIds :
          ToggleFavoriteAlone(p, u, rid)
    \/ \E p \in Procs : ToggleFavoriteFindOne(p)
    \/ \E p \in Procs : ToggleFavoriteDelete(p)
    \/ \E p \in Procs : ToggleFavoriteSave(p)

SpecToggles == InitRestaurant /\ [][NextToggles]_vars

(* the (customer, restaurant) pairs that have a favorite *)
FavoritePairs(docs) == {<<f.userId, f.restaurantId>> : f \in docs}

(* handler p answers the second of two successive successful toggles of one
   customer and restaurant: the response before its request was the first's *)
SecondToggleAnswered(p) ==
    /\ pc[p] \in {"tf_delete", "tf_save"}
    /\ pc'[p] = "idle"
    /\ resp'.status \in {200, 201}
    /\ req[p].previous.op = "toggleFavorite"
    /\ req[p].previous.status \in {200, 201}
    /\ req[p].previous.body.userId = req[p].userId
    /\ req[p].previous.body.restaurantId = req[p].restaurantId

(* C29 as stated: two successive toggles leave the favorites collection
   exactly as it was before the first. *)
C29_TwoTogglesRestoreCollection ==
    [][\A p \in Procs :
          SecondToggleAnswered(p) => favorites' = req[p].previous.body.before]_vars

(* C29, amended: two successive toggles of a customer and an active
   restaurant leave the same (customer, restaurant) pairs favorited as before
   the first; the first response's isFavorited is the negation of the initial
   state and the second's is the initial state. A favorite that was there
   before is a new document afterwards. *)
C29_TwoTogglesRestorePairs ==
    [][\A p \in Procs :
          SecondToggleAnswered(p)
          => LET first == req[p].previous.body
                 initial == <<req[p].userId, req[p].restaurantId>>
                               \in FavoritePairs(first.before)
             IN  /\ first.isFavorited = ~initial
                 /\ resp'.body.isFavorited = initial
                 /\ FavoritePairs(favorites') = FavoritePairs(first.before)]_vars

(* customer 1 has toggled the seeded favorite of restaurant 1 off and on
   again: the pair has a favorite, which is a new document *)
C29_Witness ==
    /\ started = 2
    /\ resp.op = "toggleFavorite"
    /\ resp.status = 201
    /\ resp.body.before = {}
    /\ \E f \in favorites : f.userId = 1 /\ f.restaurantId = 1 /\ f.id > 0

(* ==================== slot booking specification ======================= *)
(* a getAvailability request that arrives when no request is in flight and
   its key is not cached *)
GetAvailabilityQuiescent(p, rid, date) ==
    /\ \A q \in Procs : pc[q] = "idle"
    /\ ~cacheHas(bookingCache, AvailabilityKey(rid, date))
    /\ GetAvailabilityStart(p, rid, date)

(* a createBooking request that arrives when no request is in flight *)
CreateBookingAlone(p, body) ==
    /\ \A q \in Procs : pc[q] = "idle"
    /\ CreateBookingFindRestaurant(p, body)

NextSlots ==
    \/ \E p \in Procs, q \in AvailabilityQueries :
          GetAvailabilityQuiescent(p, q[1], q[2])
    \/ \E p \in Procs : GetAvailabilityFindRestaurant(p)
    \/ \E p \in Procs : GetAvailabilityFindBookings(p)
    \/ \E p \in Procs : GetAvailabilityRespond(p)
    \/ \E p \in Procs, b \in BookingBodies : CreateBookingAlone(p, b)
    \/ \E p \in Procs : CreateBookingCheckCapacity(p)
    \/ \E p \in Procs : CreateBookingSave(p)
    \/ \E p \in Procs : CreateBookingSaveFails(p)
    \/ \E p \in Procs : CreateBookingRespond(p)
    \/ \E p \in Procs : CreateBookingEmailFails(p)

SpecSlots == InitBooking /\ [][NextSlots]_vars

(* the entries for `time` in the listing that the last response gave for the
   restaurant and date, when that response is a getAvailability listing *)
SlotsListed(rid, date, time) ==
    IF /\ resp.op = "getAvailability"
       /\ resp.status = 200
       /\ resp.body.restaurantId = rid
       /\ resp.body.date = date
    THEN {resp.body.availableSlots[i] : i \in
             {k \in DOMAIN resp.body.availableSlots :
                 resp.body.availableSlots[k].time = time}}
    ELSE {}

(* a createBooking request that follows the listing of its slot passes the
   checks before the capacity check, is refused with a conflict exactly when
   its guests exceed the listed availableCapacity, and once past the capacity
   check ends in 201; with transactionMayFail the save may instead end in 500 *)
BookableAsListed(p, transactionMayFail) ==
    /\ \A b \in BookingBodies :
          (CreateBookingAlone(p, b)
           /\ SlotsListed(b.restaurantId, b.date, b.time) # {})
          => pc'[p] = "cb_aggregate"
    /\ (pc[p] \in {"cb_aggregate", "cb_save", "cb_email"} /\ pc'[p] # pc[p])
       => \A s \in SlotsListed(req[p].restaurantId, req[p].date, req[p].time) :
             /\ pc[p] = "cb_aggregate"
                => IF req[p].guests <= s.availableCapacity
                   THEN pc'[p] = "cb_save"
                   ELSE resp'.status = sendConflictError /\ bookings' = bookings
             /\ (pc[p] = "cb_aggregate" /\ ~s.available)
                => resp'.status = sendConflictError
             /\ pc[p] = "cb_save"
                => \/ pc'[p] = "cb_email"
                   \/ /\ transactionMayFail
                      /\ resp'.status = 500
                      /\ bookings' = bookings
             /\ pc[p] = "cb_email" => resp'.status = 201

(* C30 as stated: in a quiescent state, a createBooking request for g guests
   at a slot that getAvailability lists succeeds exactly when g is at most
   the availableCapacity listed for the slot, and fails with a conflict for a
   slot listed with available = false. *)
C30_BookableExactlyWhenListed ==
    [][\A p \in Procs : BookableAsListed(p, FALSE)]_vars

(* C30, amended: such a request is refused with a conflict exactly when g
   exceeds the listed availableCapacity (always for a slot listed with
   available = false); otherwise it passes every check and succeeds unless
   its transaction fails, which ends in 500 and stores nothing. *)
C30_BookableWhenListedUnlessSaveFails ==
    [][\A p \in Procs : BookableAsListed(p, TRUE)]_vars

(* a slot was listed with available = false (the listing is still cached) and
   the createBooking request that followed was refused: no tables *)
C30_Witness ==
    /\ resp.op = "createBooking"
    /\ resp.status = sendConflictError
    /\ resp.body = CapacityMessage(0)
    /\ \E key \in DOMAIN bookingCache :
          \E i \in DOMAIN bookingCache[key].availableSlots :
             ~bookingCache[key].availableSlots[i].available
====
